---- MODULE Spec2Model ----
(***************************************************************************)
(* The Mini Mint ledger engine: the PL/pgSQL RPCs of migrations 010/011    *)
(* over the schema of the initial migration, run by concurrent database    *)
(* sessions under PostgreSQL READ COMMITTED.                               *)
(*                                                                         *)
(* Units.  Money stored in the ledger is in cents (numeric(12,2)).  RPC    *)
(* amount parameters are unconstrained numerics and are modelled in mills  *)
(* (1/1000 dollar) so that "p_amount != ROUND(p_amount, 2)" is a real      *)
(* test.  Rates are in 1/10000 (numeric(6,4)), dates are day numbers of a  *)
(* non-leap calendar whose day 0 is 1 January.                             *)
(*                                                                         *)
(* Steps of one RPC call.  Call: the statements before                     *)
(* pg_advisory_xact_lock (authorisation, validation, and for mature_cd and *)
(* break_cd the lot fetch and its status tests).  Check: the lock and the  *)
(* reads and tests up to the first INSERT.  Write: the INSERT/UPDATE       *)
(* statements and the commit, which makes them visible and releases the    *)
(* transaction-scoped lock.  An exception at any step aborts the           *)
(* transaction.  Free-text notes are not modelled.                         *)
(***************************************************************************)
EXTENDS Integers, Sequences, FiniteSets, TLC

\* ------------------------------------------------------------------ bounds
MaxTxns == 4    \* no call starts once the ledger holds this many rows
MaxDay  == 150  \* the last calendar day the clock reaches
MaxLots == 1    \* create_cd calls are not started beyond this many lots
MaxMmfTxns == 6 \* the row limit of MaxTxns in the interest-accrual runs
MaxStockTxns == 7 \* the row limit of MaxTxns in the stock-trading runs

\* ---------------------------------------------------------- static data
Sessions == {"s1", "s2"}
NoSession == "none"

Kids == {"Aiden", "QA-Alice"}
Callers == {"Melody", "testuser"}

\* kids.household_id
KidHousehold(k) == IF k = "Aiden" THEN "Sheen Family" ELSE "QA Test"
\* admin_users.household_id
AdminHousehold(u) == IF u = "Melody" THEN "Sheen Family" ELSE "QA Test"

\* the largest amount an RPC accepts and a ledger row may hold, in dollars
MaxAmountDollars == 100000
MaxAmountCents == MaxAmountDollars * 100
MaxAmountMills == MaxAmountDollars * 1000

\* ---------------------------------------------------------- pure helpers
\* ROUND(n / d, 0) for n >= 0, d > 0: PostgreSQL rounds halves away from zero
RoundDiv(n, d) == (2 * n + d) \div (2 * d)

\* ROUND(p_amount, 2) of an amount in mills, in mills
Round2Mills(m) == RoundDiv(m, 10) * 10

\* variant: the amount test without its decimal-places part
InvalidAmountAnyPrecision(p_amount) == p_amount <= 0 \/ p_amount > MaxAmountMills

\* the amount test shared by the RPCs
InvalidAmount(p_amount) ==
  p_amount <= 0 \/ p_amount > MaxAmountMills \/ p_amount # Round2Mills(p_amount)

\* a validated amount as stored in a numeric(12,2) column
ToCents(p_amount) == p_amount \div 10

\* the household ownership test at the top of every RPC
Unauthorized(caller, kid) ==
  ~ (caller \in Callers /\ kid \in Kids /\ AdminHousehold(caller) = KidHousehold(kid))

\* variant: a table that lets redeem rows stand only in the buckets redeemed from
ValidTypeBucketRedeemSource(type, bucket) ==
  \/ type \in {"deposit", "withdraw", "dividend"} /\ bucket = "cash"
  \/ type = "invest"   /\ bucket \in {"cash", "mmf"}
  \/ type = "redeem"   /\ bucket \in {"mmf", "cd"}
  \/ type = "interest" /\ bucket = "mmf"
  \/ type \in {"buy", "sell"} /\ bucket \in {"cash", "stock"}

\* chk_valid_type_bucket
ValidTypeBucket(type, bucket) ==
  \/ type = "deposit"  /\ bucket = "cash"
  \/ type = "withdraw" /\ bucket = "cash"
  \/ type = "invest"   /\ bucket \in {"cash", "mmf"}
  \/ type = "redeem"   /\ bucket \in {"cash", "mmf", "cd"}
  \/ type = "interest" /\ bucket = "mmf"
  \/ type = "dividend" /\ bucket = "cash"
  \/ type = "buy"      /\ bucket \in {"cash", "stock"}
  \/ type = "sell"     /\ bucket \in {"cash", "stock"}

Abs(x) == IF x < 0 THEN -x ELSE x

\* the CHECK constraints of a transactions row
RowOk(e) == Abs(e.amount) <= MaxAmountCents /\ ValidTypeBucket(e.type, e.bucket)

\* floor(a * b / c) and the remainder, for a, b >= 0 and 0 < c < 2^30, computed
\* by doubling so that no intermediate product leaves the integer range
RECURSIVE MulDiv(_, _, _)
MulDiv(a, b, c) ==
  IF b = 0 THEN [q |-> 0, r |-> 0]
  ELSE LET h  == MulDiv(a, b \div 2, c)
           q2 == 2 * h.q + (2 * h.r) \div c
           r2 == (2 * h.r) % c
       IN IF b % 2 = 0 THEN [q |-> q2, r |-> r2]
          ELSE [q |-> q2 + (a \div c) + (r2 + (a % c)) \div c,
                r |-> (r2 + (a % c)) % c]

\* ROUND(a * b / c, 0)
RoundMulDiv(a, b, c) ==
  LET m == MulDiv(a, b, c) IN m.q + (IF 2 * m.r >= c THEN 1 ELSE 0)

\* ROUND(principal * apy * days / 365.0, 2) in cents; apy in 1/10000
SimpleInterest(principal, apy, days) == RoundMulDiv(principal, apy * days, 3650000)

\* ---- dates: day numbers of a non-leap calendar, day 0 = 1 January
MonthLen == <<31, 28, 31, 30, 31, 30, 31, 31, 30, 31, 30, 31>>
RECURSIVE MonthStart(_)
MonthStart(m) == IF m = 1 THEN 0 ELSE MonthStart(m - 1) + MonthLen[m - 1]
MonthOf(doy) == CHOOSE m \in 1..12 : MonthStart(m) <= doy /\ doy < MonthStart(m) + MonthLen[m]
Min(a, b) == IF a < b THEN a ELSE b
Max(a, b) == IF a > b THEN a ELSE b

\* variant: a month taken as thirty days
AddThirtyDayMonths(date, n) == date + 30 * n

\* (date + (n || ' months')::interval)::date
AddMonths(date, n) ==
  LET y   == date \div 365
      doy == date % 365
      m   == MonthOf(doy)
      dom == doy - MonthStart(m) + 1
      m2  == m + n
      y2  == y + (m2 - 1) \div 12
      m3  == ((m2 - 1) % 12) + 1
  IN y2 * 365 + MonthStart(m3) + Min(dom, MonthLen[m3]) - 1

RECURSIVE SumAmounts(_)
SumAmounts(s) == IF s = << >> THEN 0 ELSE Head(s).amount + SumAmounts(Tail(s))

VARIABLES
  transactions,     \* the ledger table, in insertion order
  cd_lots,          \* the cd_lots table; a lot's id is its index
  stock_positions,  \* the stock_positions table, keyed by (kid, ticker)
  stock_prices,     \* the stock_prices table reduced to the newest row of
                    \* each ticker: its close_price, 0 when it has no row
  settings,         \* the settings table
  today,            \* CURRENT_DATE
  lock,             \* advisory lock per kid: the session holding it
  pc,               \* per session: "idle", "wait" (before the lock), "write"
  req,              \* per session: the call in progress or last finished
  loc,              \* per session: the PL/pgSQL locals the call has read
  ret,              \* outcome of the call the last step finished, else "none"
  page,             \* per session: the Add Money page open on that client
  flow,             \* useActionFlow's state in the page a parent has open
  portfolio         \* the ['portfolio', kidId] query of a kid's card: the
                    \* reads getPortfolioSummary has got back so far

vars == <<transactions, cd_lots, stock_positions, stock_prices, settings,
          today, lock, pc, req, loc, ret, page, flow, portfolio>>


\* ---------------------------------------------------------- table reads
\* a transactions row; created_at is kept as its UTC date
Txn(kid, type, bucket, amount, by, metadata) ==
  [kid |-> kid, type |-> type, bucket |-> bucket, amount |-> amount,
   created_by |-> by, created_at |-> today, metadata |-> metadata]

NoMetadata == << >>

\* SELECT COALESCE(SUM(t.amount), 0.00) FROM transactions t
\*  WHERE t.kid_id = k AND t.bucket = b
SqlBalance(k, b) ==
  SumAmounts(SelectSeq(transactions, LAMBDA e : e.kid = k /\ e.bucket = b))

\* variant: the function takes no advisory lock, so nothing is ever waited for
LockFreeAlways(k, p) == TRUE

\* the session-level advisory lock test of pg_advisory_xact_lock: the call
\* proceeds only when no other transaction holds the kid's key
LockFree(k, p) == lock[k] \in {NoSession, p}

\* variant: the lock outlives the transaction
ReleasedNever(p) == lock

\* transaction end: every advisory xact lock of the session is released
Released(p) == [k \in Kids |-> IF lock[k] = p THEN NoSession ELSE lock[k]]

\* variant: the statements auto-commit one by one, so the writes made before
\* an exception stay
TxnEndKeepsWrites(pre, post, err) == post

\* a PL/pgSQL function body is atomic: an exception discards all its writes
TxnEnd(pre, post, err) == IF err = "ok" THEN post ELSE pre

Tables == [t |-> transactions, lots |-> cd_lots, pos |-> stock_positions]

\* the tickers that have rows in some table; every one is well-formed
Tickers == {"AAPL", "VTI"}

\* p_ticker !~ '^[A-Z]{1,10}$'
InvalidTicker(t) == t \notin Tickers

\* SELECT sp.close_price ... ORDER BY sp.date DESC LIMIT 1; 0 stands for NULL
LatestPrice(t) == stock_prices[t]

\* ---------------------------------------------------------- call records
NoLot == [kid |-> "-", principal |-> 0, apy |-> 0, term_months |-> 0,
          start_date |-> 0, maturity_date |-> 0, status |-> "-"]
NoPosition == [kid |-> "-", ticker |-> "-", shares |-> 0, cost_basis |-> 0]

EmptyLoc == [v_lot |-> NoLot, v_interest |-> 0, v_days |-> 0, v_apy |-> 0,
             v_balance |-> 0, v_maturity |-> 0, v_price |-> 0, v_shares |-> 0,
             v_position |-> NoPosition, v_proceeds |-> 0, v_cost_of_sold |-> 0,
             v_gain |-> 0]

NoReq == [op |-> "-", caller |-> "-", kid |-> "-", amount |-> 0,
          ticker |-> "-", term |-> 0, lot |-> 0]

\* one RPC invocation: auth.uid() and the parameters
Request(op, caller, kid, amount, ticker, term, lot) ==
  [op |-> op, caller |-> caller, kid |-> kid, amount |-> amount,
   ticker |-> ticker, term |-> term, lot |-> lot]

\* a deposit_to_cash invocation that passes p_source and p_metadata
DepositRequest(caller, kid, amount, source, metadata) ==
  Request("deposit_to_cash", caller, kid, amount, "-", 0, 0)
    @@ [source |-> source, metadata |-> metadata]

\* lastSnapshot is null (and undefined before the query has answered)
NoSnapshot == -1

\* the Add Money page: the selected kid, the data of the lastSnapshot query,
\* and whether a confirmed deposit is still on its way
NoPage == [kidId |-> "-", lastSnapshot |-> NoSnapshot, phase |-> "form"]

\* INITIAL_STATE of useActionFlow; the summary is kept as the call it describes
INITIAL_STATE ==
  [phase |-> "idle", summary |-> NoReq, result |-> "none", error |-> "none",
   isSubmitting |-> FALSE]

\* the portfolio query before it has run for any kid.  fired is a history
\* field: the ledger's length, the prices and the kid's total at the moment
\* the reads were sent
NoSummary ==
  [kid |-> "-", pending |-> {}, cash |-> 0, mmf |-> 0, cdTotal |-> 0,
   positions |-> << >>, stockTotal |-> 0,
   fired |-> [rows |-> 0, prices |-> [t \in Tickers |-> 0], total |-> 0]]

Init ==
  /\ transactions = << >>
  /\ cd_lots = << >>
  /\ stock_positions = << >>
  /\ stock_prices = [t \in Tickers |-> 0]
  /\ settings = [mmf_apy |-> 420, cd_3m_apy |-> 480, cd_6m_apy |-> 500,
                 cd_12m_apy |-> 520, stock_position_limit |-> 5,
                 hanzi_dojo_conversion_rate |-> 10]
  /\ today = 0
  /\ lock = [k \in Kids |-> NoSession]
  /\ pc = [p \in Sessions |-> "idle"]
  /\ req = [p \in Sessions |-> NoReq]
  /\ loc = [p \in Sessions |-> EmptyLoc]
  /\ ret = "none"
  /\ page = [p \in Sessions |-> NoPage]
  /\ flow = INITIAL_STATE
  /\ portfolio = NoSummary

\* ---------------------------------------------------------- step helpers
\* the call returns or raises without having written anything
Return(p, outcome) ==
  /\ pc' = [pc EXCEPT ![p] = "idle"]
  /\ ret' = outcome
  /\ loc' = [loc EXCEPT ![p] = EmptyLoc]
  /\ req' = [req EXCEPT ![p] = NoReq]
  /\ lock' = Released(p)
  /\ UNCHANGED <<transactions, cd_lots, stock_positions>>

\* RAISE EXCEPTION
Fail(p, err) == Return(p, err)

\* the lock is taken and every test passed: go on to the INSERTs
Proceed(p, k, locals) ==
  /\ pc' = [pc EXCEPT ![p] = "write"]
  /\ loc' = [loc EXCEPT ![p] = locals]
  /\ lock' = [lock EXCEPT ![k] = p]
  /\ ret' = "none"
  /\ UNCHANGED <<transactions, cd_lots, stock_positions, req>>

\* uq_interest_per_kid_per_day
InterestUnique(t) ==
  \A i, j \in 1..Len(t) :
    (i < j /\ t[i].type = "interest" /\ t[j].type = "interest"
       /\ t[i].kid = t[j].kid /\ t[i].bucket = t[j].bucket)
      => t[i].created_at # t[j].created_at

\* the constraints the tables enforce on what a call wrote
ConstraintError(post) ==
  IF /\ \A i \in (Len(transactions) + 1)..Len(post.t) : RowOk(post.t[i])
     /\ InterestUnique(post.t)
     /\ \A i \in 1..Len(post.lots) :
          /\ post.lots[i].principal > 0 /\ post.lots[i].principal <= MaxAmountCents
          /\ post.lots[i].apy >= 0 /\ post.lots[i].apy <= 2000
          /\ post.lots[i].term_months \in {3, 6, 12}
     /\ \A i \in 1..Len(post.pos) :
          post.pos[i].shares >= 0 /\ post.pos[i].cost_basis >= 0
     /\ \A i, j \in 1..Len(post.pos) :
          (post.pos[i].kid = post.pos[j].kid
             /\ post.pos[i].ticker = post.pos[j].ticker) => i = j
  THEN "ok" ELSE "ConstraintViolation"

\* the INSERT/UPDATE statements of a call followed by the end of its transaction
Write(p, post) ==
  LET err == ConstraintError(post)
      fin == TxnEnd(Tables, post, err)
  IN /\ transactions' = fin.t
     /\ cd_lots' = fin.lots
     /\ stock_positions' = fin.pos
     /\ pc' = [pc EXCEPT ![p] = "idle"]
     /\ ret' = err
     /\ loc' = [loc EXCEPT ![p] = EmptyLoc]
     /\ req' = [req EXCEPT ![p] = NoReq]
     /\ lock' = Released(p)

Env == <<stock_prices, settings, today, page, flow, portfolio>>

Waiting(p, op) == pc[p] = "wait" /\ req[p].op = op /\ LockFree(req[p].kid, p)
Writing(p, op) == pc[p] = "write" /\ req[p].op = op

\* variant: the comparison written with <= instead of <
InsufficientOrEqual(balance, p_amount) == balance * 10 <= p_amount

\* v_balance < p_amount, the balance in cents and the amount in mills
Insufficient(balance, p_amount) == balance * 10 < p_amount

\* ---------------------------------------------------------- T4: cash
\* variant: a deposit that refuses to take the cash balance past the row limit
deposit_capped(p) ==
  LET r == req[p]
      v_balance == SqlBalance(r.kid, "cash")
  IN
  /\ UNCHANGED Env
  /\ \/ /\ Waiting(p, "deposit_to_cash")
        /\ IF v_balance + ToCents(r.amount) > MaxAmountCents
           THEN Fail(p, "InvalidAmount")
           ELSE Proceed(p, r.kid, EmptyLoc)
     \/ /\ Writing(p, "deposit_to_cash")
        /\ Write(p, [Tables EXCEPT !.t = Append(@,
             Txn(r.kid, "deposit", "cash", ToCents(r.amount), r.caller, NoMetadata))])

\* v_final_metadata: p_metadata merged with the source, NULL when both are
\* absent
FinalMetadata(r) ==
  IF "source" \notin DOMAIN r THEN NoMetadata
  ELSE [source |-> r.source] @@ r.metadata

deposit_to_cash(p) ==
  LET r == req[p] IN
  /\ UNCHANGED Env
  /\ \/ /\ Waiting(p, "deposit_to_cash")
        /\ Proceed(p, r.kid, EmptyLoc)
     \/ /\ Writing(p, "deposit_to_cash")
        /\ Write(p, [Tables EXCEPT !.t = Append(@,
             Txn(r.kid, "deposit", "cash", ToCents(r.amount), r.caller,
                 FinalMetadata(r)))])

withdraw_from_cash(p) ==
  LET r == req[p]
      v_balance == SqlBalance(r.kid, "cash")
  IN
  /\ UNCHANGED Env
  /\ \/ /\ Waiting(p, "withdraw_from_cash")
        /\ IF Insufficient(v_balance, r.amount)
           THEN Fail(p, "InsufficientBalance")
           ELSE Proceed(p, r.kid, EmptyLoc)
     \/ /\ Writing(p, "withdraw_from_cash")
        /\ Write(p, [Tables EXCEPT !.t = Append(@,
             Txn(r.kid, "withdraw", "cash", -ToCents(r.amount), r.caller, NoMetadata))])

\* ---------------------------------------------------------- T5: MMF
invest_in_mmf(p) ==
  LET r == req[p]
      v_cash == SqlBalance(r.kid, "cash")
  IN
  /\ UNCHANGED Env
  /\ \/ /\ Waiting(p, "invest_in_mmf")
        /\ IF Insufficient(v_cash, r.amount)
           THEN Fail(p, "InsufficientBalance")
           ELSE Proceed(p, r.kid, EmptyLoc)
     \/ /\ Writing(p, "invest_in_mmf")
        /\ Write(p, [Tables EXCEPT !.t = @ \o
             << Txn(r.kid, "invest", "cash", -ToCents(r.amount), r.caller, NoMetadata),
                Txn(r.kid, "invest", "mmf", ToCents(r.amount), r.caller, NoMetadata) >>])

\* variant: the sufficiency test copied from invest_in_mmf reads the cash bucket
redeem_checks_cash(p) ==
  LET r == req[p]
      v_cash == SqlBalance(r.kid, "cash")
  IN
  /\ UNCHANGED Env
  /\ \/ /\ Waiting(p, "redeem_from_mmf")
        /\ IF Insufficient(v_cash, r.amount)
           THEN Fail(p, "InsufficientBalance")
           ELSE Proceed(p, r.kid, EmptyLoc)
     \/ /\ Writing(p, "redeem_from_mmf")
        /\ Write(p, [Tables EXCEPT !.t = @ \o
             << Txn(r.kid, "redeem", "mmf", -ToCents(r.amount), r.caller, NoMetadata),
                Txn(r.kid, "redeem", "cash", ToCents(r.amount), r.caller, NoMetadata) >>])

redeem_from_mmf(p) ==
  LET r == req[p]
      v_mmf == SqlBalance(r.kid, "mmf")
  IN
  /\ UNCHANGED Env
  /\ \/ /\ Waiting(p, "redeem_from_mmf")
        /\ IF Insufficient(v_mmf, r.amount)
           THEN Fail(p, "InsufficientBalance")
           ELSE Proceed(p, r.kid, EmptyLoc)
     \/ /\ Writing(p, "redeem_from_mmf")
        /\ Write(p, [Tables EXCEPT !.t = @ \o
             << Txn(r.kid, "redeem", "mmf", -ToCents(r.amount), r.caller, NoMetadata),
                Txn(r.kid, "redeem", "cash", ToCents(r.amount), r.caller, NoMetadata) >>])

\* the rows of kid k with the given type and bucket, in created_at order
KidRows(k, type, bucket) ==
  SelectSeq(transactions, LAMBDA e : e.kid = k /\ e.type = type /\ e.bucket = bucket)

\* variant: the interest rows are not looked at, the first invest always counts
FirstInvestDate(k) ==
  LET invest == KidRows(k, "invest", "mmf")
  IN IF invest # << >> THEN invest[1].created_at ELSE -1

\* variant: without an interest row the latest invest counts, not the first
LatestInvestDate(k) ==
  LET interest == KidRows(k, "interest", "mmf")
      invest   == KidRows(k, "invest", "mmf")
  IN IF interest # << >> THEN interest[Len(interest)].created_at
     ELSE IF invest # << >> THEN invest[Len(invest)].created_at
     ELSE -1

\* v_last_accrual_date; -1 stands for NULL
LastAccrualDate(k) ==
  LET interest == KidRows(k, "interest", "mmf")
      invest   == KidRows(k, "invest", "mmf")
  IN IF interest # << >> THEN interest[Len(interest)].created_at
     ELSE IF invest # << >> THEN invest[1].created_at
     ELSE -1

RECURSIVE TenPowMod365(_)
\* 10^e modulo 365
TenPowMod365(e) == IF e = 0 THEN 1 ELSE (10 * TenPowMod365(e - 1)) % 365

\* the display scale numeric division gives v_apy / 365.0 (select_div_scale):
\* sixteen significant digits counted in base-10000 digits, which is 20
\* decimals when v_apy's first digit group exceeds 365 and 24 otherwise
DailyRateScale(apy) == IF apy > 365 THEN 20 ELSE 24

\* v_apy / 365.0 is rounded to DailyRateScale decimals before it is multiplied:
\* TRUE when that rounding made the daily rate smaller than apy / 365
DailyRateRoundedDown(apy) ==
  LET r == (apy * TenPowMod365(DailyRateScale(apy) - 4)) % 365
  IN r # 0 /\ 2 * r < 365

\* ROUND(v_mmf_balance * (v_apy / 365.0) * v_days, 2) in cents.  The products
\* are exact, so the value rounded is balance * days * (apy / 365 + e) with
\* |e| <= 0.5 * 10^-20: off the exact value by less than 10^-9 cent for any
\* balance and day count of the model, which changes the rounded cent only
\* when the exact value lies on a half cent, and then by the sign of e
MmfInterest(balance, apy, days) ==
  LET m == MulDiv(balance, apy * days, 3650000)
  IN m.q + (IF \/ 2 * m.r > 3650000
               \/ 2 * m.r = 3650000 /\ ~DailyRateRoundedDown(apy)
            THEN 1 ELSE 0)

\* variant: the test of v_interest <= 0 left out
accrue_credits_zero(p) ==
  LET r == req[p]
      v_mmf_balance == SqlBalance(r.kid, "mmf")
      v_apy == settings.mmf_apy
      v_last_accrual_date == LastAccrualDate(r.kid)
      v_days == today - v_last_accrual_date
      v_interest == MmfInterest(v_mmf_balance, v_apy, v_days)
  IN
  /\ UNCHANGED Env
  /\ \/ /\ Waiting(p, "accrue_mmf_interest")
        /\ IF v_mmf_balance <= 0 THEN Return(p, "noop")
           ELSE IF v_last_accrual_date = -1 THEN Return(p, "noop")
           ELSE IF v_days <= 0 THEN Return(p, "noop")
           ELSE Proceed(p, r.kid, [EmptyLoc EXCEPT !.v_interest = v_interest,
                  !.v_days = v_days, !.v_apy = v_apy, !.v_balance = v_mmf_balance])
     \/ /\ Writing(p, "accrue_mmf_interest")
        /\ Write(p, [Tables EXCEPT !.t = Append(@,
             Txn(r.kid, "interest", "mmf", loc[p].v_interest, r.caller,
                 [days_accrued |-> loc[p].v_days, apy_at_accrual |-> loc[p].v_apy,
                  balance_at_accrual |-> loc[p].v_balance]))])

accrue_mmf_interest(p) ==
  LET r == req[p]
      v_mmf_balance == SqlBalance(r.kid, "mmf")
      v_apy == settings.mmf_apy
      v_last_accrual_date == LastAccrualDate(r.kid)
      v_days == today - v_last_accrual_date
      v_interest == MmfInterest(v_mmf_balance, v_apy, v_days)
  IN
  /\ UNCHANGED Env
  /\ \/ /\ Waiting(p, "accrue_mmf_interest")
        /\ IF v_mmf_balance <= 0 THEN Return(p, "noop")
           ELSE IF v_last_accrual_date = -1 THEN Return(p, "noop")
           ELSE IF v_days <= 0 THEN Return(p, "noop")
           ELSE IF v_interest <= 0 THEN Return(p, "noop")
           ELSE Proceed(p, r.kid, [EmptyLoc EXCEPT !.v_interest = v_interest,
                  !.v_days = v_days, !.v_apy = v_apy, !.v_balance = v_mmf_balance])
     \/ /\ Writing(p, "accrue_mmf_interest")
        /\ Write(p, [Tables EXCEPT !.t = Append(@,
             Txn(r.kid, "interest", "mmf", loc[p].v_interest, r.caller,
                 [days_accrued |-> loc[p].v_days, apy_at_accrual |-> loc[p].v_apy,
                  balance_at_accrual |-> loc[p].v_balance]))])

\* ---------------------------------------------------------- T14: spend
\* variant: the spend leaves the redeemed money in cash (no withdraw row)
spend_from_mmf_keeps_cash(p) ==
  LET r == req[p]
      v_mmf == SqlBalance(r.kid, "mmf")
  IN
  /\ UNCHANGED Env
  /\ \/ /\ Waiting(p, "spend_from_mmf")
        /\ IF Insufficient(v_mmf, r.amount)
           THEN Fail(p, "InsufficientBalance")
           ELSE Proceed(p, r.kid, EmptyLoc)
     \/ /\ Writing(p, "spend_from_mmf")
        /\ Write(p, [Tables EXCEPT !.t = @ \o
             << Txn(r.kid, "redeem", "mmf", -ToCents(r.amount), r.caller,
                    [reason |-> "spend"]),
                Txn(r.kid, "redeem", "cash", ToCents(r.amount), r.caller,
                    [reason |-> "spend", funded_from |-> "mmf"]) >>])

spend_from_mmf(p) ==
  LET r == req[p]
      v_mmf == SqlBalance(r.kid, "mmf")
  IN
  /\ UNCHANGED Env
  /\ \/ /\ Waiting(p, "spend_from_mmf")
        /\ IF Insufficient(v_mmf, r.amount)
           THEN Fail(p, "InsufficientBalance")
           ELSE Proceed(p, r.kid, EmptyLoc)
     \/ /\ Writing(p, "spend_from_mmf")
        /\ Write(p, [Tables EXCEPT !.t = @ \o
             << Txn(r.kid, "redeem", "mmf", -ToCents(r.amount), r.caller,
                    [reason |-> "spend"]),
                Txn(r.kid, "redeem", "cash", ToCents(r.amount), r.caller,
                    [reason |-> "spend", funded_from |-> "mmf"]),
                Txn(r.kid, "withdraw", "cash", -ToCents(r.amount), r.caller,
                    [funded_from |-> "mmf"]) >>])

\* ---------------------------------------------------------- T6: CD lots
\* the settings row 'cd_' || p_term_months || 'm_apy'
CdApy(term) ==
  CASE term = 3 -> settings.cd_3m_apy
    [] term = 6 -> settings.cd_6m_apy
    [] OTHER    -> settings.cd_12m_apy

create_cd(p) ==
  LET r == req[p]
      v_cash == SqlBalance(r.kid, "cash")
      v_apy == CdApy(r.term)
      v_maturity == AddMonths(today, r.term)
  IN
  /\ UNCHANGED Env
  /\ \/ /\ Waiting(p, "create_cd")
        /\ IF Insufficient(v_cash, r.amount)
           THEN Fail(p, "InsufficientBalance")
           ELSE Proceed(p, r.kid, [EmptyLoc EXCEPT !.v_apy = v_apy,
                                                   !.v_maturity = v_maturity])
     \/ /\ Writing(p, "create_cd")
        /\ Write(p, [Tables EXCEPT
             !.t = Append(@, Txn(r.kid, "invest", "cash", -ToCents(r.amount),
                                 r.caller, NoMetadata)),
             !.lots = Append(@, [kid |-> r.kid, principal |-> ToCents(r.amount),
                                 apy |-> loc[p].v_apy, term_months |-> r.term,
                                 start_date |-> today,
                                 maturity_date |-> loc[p].v_maturity,
                                 status |-> "active"])])

\* variant: the UPDATE also sets the lot's rate to the current setting
SetLotStatusAndRate(lots, id, st) ==
  [i \in 1..Len(lots) |->
     IF i = id THEN [lots[i] EXCEPT !.status = st, !.apy = CdApy(lots[i].term_months)]
     ELSE lots[i]]

\* UPDATE cd_lots SET status = st WHERE id = id
SetLotStatus(lots, id, st) ==
  [i \in 1..Len(lots) |-> IF i = id THEN [lots[i] EXCEPT !.status = st] ELSE lots[i]]

mature_cd(p) ==
  LET r == req[p]
      v_lot == loc[p].v_lot
      v_days == v_lot.maturity_date - v_lot.start_date
      v_interest == SimpleInterest(v_lot.principal, v_lot.apy, v_days)
      v_total == v_lot.principal + v_interest
  IN
  /\ UNCHANGED Env
  /\ \/ /\ pc[p] = "wait" /\ r.op = "mature_cd" /\ LockFree(v_lot.kid, p)
        /\ Proceed(p, v_lot.kid, loc[p])
     \/ /\ Writing(p, "mature_cd")
        /\ Write(p, [Tables EXCEPT
             !.lots = SetLotStatus(@, r.lot, "matured"),
             !.t = Append(@, Txn(v_lot.kid, "redeem", "cash", v_total, r.caller,
                    [cd_lot_id |-> r.lot, principal |-> v_lot.principal,
                     interest |-> v_interest, apy |-> v_lot.apy,
                     days_held |-> v_days]))])

\* variant: the early-withdrawal penalty is not deducted
break_cd_no_penalty(p) ==
  LET r == req[p]
      v_lot == loc[p].v_lot
      v_days == today - v_lot.start_date
      v_interest == SimpleInterest(v_lot.principal, v_lot.apy, v_days)
      v_net == v_lot.principal + Max(v_interest, 0)
  IN
  /\ UNCHANGED Env
  /\ \/ /\ pc[p] = "wait" /\ r.op = "break_cd" /\ LockFree(v_lot.kid, p)
        /\ Proceed(p, v_lot.kid, loc[p])
     \/ /\ Writing(p, "break_cd")
        /\ Write(p, [Tables EXCEPT
             !.lots = SetLotStatus(@, r.lot, "broken"),
             !.t = Append(@, Txn(v_lot.kid, "redeem", "cash", v_net, r.caller,
                    [cd_lot_id |-> r.lot, principal |-> v_lot.principal,
                     interest_earned |-> v_interest, penalty |-> 0,
                     penalty_days |-> 0, net_returned |-> v_net,
                     days_held |-> v_days, apy |-> v_lot.apy]))])

break_cd(p) ==
  LET r == req[p]
      v_lot == loc[p].v_lot
      v_days == today - v_lot.start_date
      v_interest == SimpleInterest(v_lot.principal, v_lot.apy, v_days)
      v_penalty_days == Min(v_days, 30)
      v_penalty == SimpleInterest(v_lot.principal, v_lot.apy, v_penalty_days)
      v_net == v_lot.principal + Max(v_interest - v_penalty, 0)
  IN
  /\ UNCHANGED Env
  /\ \/ /\ pc[p] = "wait" /\ r.op = "break_cd" /\ LockFree(v_lot.kid, p)
        /\ Proceed(p, v_lot.kid, loc[p])
     \/ /\ Writing(p, "break_cd")
        /\ Write(p, [Tables EXCEPT
             !.lots = SetLotStatus(@, r.lot, "broken"),
             !.t = Append(@, Txn(v_lot.kid, "redeem", "cash", v_net, r.caller,
                    [cd_lot_id |-> r.lot, principal |-> v_lot.principal,
                     interest_earned |-> v_interest, penalty |-> v_penalty,
                     penalty_days |-> v_penalty_days, net_returned |-> v_net,
                     days_held |-> v_days, apy |-> v_lot.apy]))])

\* ---------------------------------------------------------- T7: stocks
\* index of the (kid, ticker) row of a positions table, 0 when NOT FOUND
PositionIndex(pos, k, t) ==
  IF \E i \in 1..Len(pos) : pos[i].kid = k /\ pos[i].ticker = t
  THEN CHOOSE i \in 1..Len(pos) : pos[i].kid = k /\ pos[i].ticker = t
  ELSE 0

PositionOf(k, t) ==
  IF PositionIndex(stock_positions, k, t) = 0 THEN NoPosition
  ELSE stock_positions[PositionIndex(stock_positions, k, t)]

\* SELECT COUNT(*) FROM stock_positions WHERE kid_id = k AND shares > 0
PositionCount(k) ==
  Cardinality({i \in 1..Len(stock_positions) :
                 stock_positions[i].kid = k /\ stock_positions[i].shares > 0})

\* ROUND(p_dollar_amount / v_price, 8) in 1e-8 shares; amount in mills,
\* price in 1/10000 dollar
SharesFor(p_amount, v_price) == RoundMulDiv(1000000000, p_amount, v_price)

\* ROUND(shares * v_price, 2) in cents
SharesValue(shares, v_price) ==
  LET m == MulDiv(shares, v_price, 1000000000)
  IN m.q \div 10 + (IF m.q % 10 >= 5 THEN 1 ELSE 0)

RECURSIVE TenPowMod(_, _)
\* 10^e modulo n, four decimal digits at a time (n < 2^30)
TenPowMod(e, n) ==
  IF e < 5 THEN (10 ^ e) % n
  ELSE CHOOSE r \in { MulDiv(t, 10 ^ 4, n).r : t \in { TenPowMod(e - 4, n) } } : TRUE

\* the display scale numeric division gives cost_basis / shares
\* (select_div_scale): sixteen significant digits counted from the quotient's
\* first base-10000 digit, and no fewer decimals than shares has (8).
\* cost_basis in cents, shares in 1e-8
AvgCostScale(cost_basis, shares) ==
  LET w1 == IF cost_basis < 100 THEN -1 ELSE IF cost_basis < 1000000 THEN 0 ELSE 1
      d1 == IF cost_basis < 100 THEN cost_basis * 100
            ELSE IF cost_basis < 1000000 THEN cost_basis \div 100
            ELSE cost_basis \div 1000000
      w2 == IF shares < 10000 THEN -2 ELSE IF shares < 100000000 THEN -1 ELSE 0
      d2 == IF shares < 10000 THEN shares
            ELSE IF shares < 100000000 THEN shares \div 10000
            ELSE shares \div 100000000
      qweight == w1 - w2 - (IF d1 <= d2 THEN 1 ELSE 0)
  IN Max(16 - 4 * qweight, 8)

\* v_avg_cost_per_share := cost_basis / shares is rounded to AvgCostScale
\* decimals: TRUE when that made it smaller than the true quotient
AvgCostRoundedDown(cost_basis, shares) ==
  \E t \in { TenPowMod(6 + AvgCostScale(cost_basis, shares), shares) } :
    LET r == MulDiv(t, cost_basis, shares).r
    IN r # 0 /\ 2 * r < shares

\* ROUND((cost_basis / shares) * v_shares_to_sell, 2) in cents.  The product
\* is exact, so the value rounded is off the true cost_basis * sold / shares
\* by the rounding error of the average cost times the shares sold, less than
\* 10^-12 cent for an average cost below 10,000 a share: it changes the
\* rounded cent only when the true value lies on a half cent, and then by the
\* direction in which the average cost was rounded
CostOfSold(position, v_shares_to_sell) ==
  CHOOSE v_cost_of_sold \in
    { LET m == MulDiv(x, c, s)
      IN m.q + (IF \/ 2 * m.r > s
                   \/ 2 * m.r = s /\ ~ AvgCostRoundedDown(c, s)
                THEN 1 ELSE 0)
      : c \in { position.cost_basis }, s \in { position.shares },
        x \in { v_shares_to_sell } } : TRUE

\* variant: the share count is not compared with the holding
OversoldNever(v_shares_to_sell, v_position) == FALSE

\* IF v_shares_to_sell > v_position.shares THEN RAISE 'Insufficient shares ...'
Oversold(v_shares_to_sell, v_position) == v_shares_to_sell > v_position.shares

\* variant: a plain INSERT, without the ON CONFLICT clause
InsertPosition(pos, k, t, v_shares, cost) ==
  Append(pos, [kid |-> k, ticker |-> t, shares |-> v_shares, cost_basis |-> cost])

\* variant: the conflict target is the ticker alone
UpsertPositionByTicker(pos, k, t, v_shares, cost) ==
  IF \E i \in 1..Len(pos) : pos[i].ticker = t
  THEN [i \in 1..Len(pos) |->
          IF pos[i].ticker = t
          THEN [pos[i] EXCEPT !.shares = @ + v_shares, !.cost_basis = @ + cost]
          ELSE pos[i]]
  ELSE Append(pos, [kid |-> k, ticker |-> t, shares |-> v_shares, cost_basis |-> cost])

\* variant: ON CONFLICT replaces the held shares and cost basis
UpsertReplacesPosition(pos, k, t, v_shares, cost) ==
  LET i == PositionIndex(pos, k, t) IN
  IF i = 0
  THEN Append(pos, [kid |-> k, ticker |-> t, shares |-> v_shares, cost_basis |-> cost])
  ELSE [pos EXCEPT ![i] = [@ EXCEPT !.shares = v_shares, !.cost_basis = cost]]

\* INSERT INTO stock_positions ... ON CONFLICT (kid_id, ticker) DO UPDATE
UpsertPosition(pos, k, t, v_shares, cost) ==
  LET i == PositionIndex(pos, k, t) IN
  IF i = 0
  THEN Append(pos, [kid |-> k, ticker |-> t, shares |-> v_shares, cost_basis |-> cost])
  ELSE [pos EXCEPT ![i] = [@ EXCEPT !.shares = @ + v_shares,
                                    !.cost_basis = @ + cost]]

\* variant: the row is always updated, never deleted
ReducePositionKeepsRow(pos, k, t, v_position, v_shares_to_sell, v_cost_of_sold) ==
  [i \in 1..Len(pos) |->
     IF pos[i].kid = k /\ pos[i].ticker = t
     THEN [pos[i] EXCEPT !.shares = @ - v_shares_to_sell,
                         !.cost_basis = @ - v_cost_of_sold]
     ELSE pos[i]]

\* variant: the row is deleted by every sale, a partial one too
ReducePositionDeletesRow(pos, k, t, v_position, v_shares_to_sell, v_cost_of_sold) ==
  SelectSeq(pos, LAMBDA x : ~ (x.kid = k /\ x.ticker = t))

\* the "update or delete position" tail of sell_stock and spend_from_stock
ReducePosition(pos, k, t, v_position, v_shares_to_sell, v_cost_of_sold) ==
  IF v_shares_to_sell >= v_position.shares
  THEN SelectSeq(pos, LAMBDA x : ~ (x.kid = k /\ x.ticker = t))
  ELSE [i \in 1..Len(pos) |->
          IF pos[i].kid = k /\ pos[i].ticker = t
          THEN [pos[i] EXCEPT !.shares = @ - v_shares_to_sell,
                              !.cost_basis = @ - v_cost_of_sold]
          ELSE pos[i]]

buy_stock(p) ==
  LET r == req[p]
      v_price == LatestPrice(r.ticker)
      v_has_position == PositionIndex(stock_positions, r.kid, r.ticker) # 0
      v_position_count == PositionCount(r.kid)
      v_position_limit == settings.stock_position_limit
      v_cash == SqlBalance(r.kid, "cash")
      v_shares == SharesFor(r.amount, v_price)
      meta == [ticker |-> r.ticker, shares |-> loc[p].v_shares,
               price_per_share |-> loc[p].v_price]
  IN
  /\ UNCHANGED Env
  /\ \/ /\ Waiting(p, "buy_stock")
        /\ IF v_price = 0 THEN Fail(p, "NoPriceData")
           ELSE IF ~ v_has_position /\ v_position_count >= v_position_limit
             THEN Fail(p, "PositionLimitReached")
           ELSE IF Insufficient(v_cash, r.amount) THEN Fail(p, "InsufficientBalance")
           ELSE Proceed(p, r.kid, [EmptyLoc EXCEPT !.v_price = v_price,
                                                   !.v_shares = v_shares])
     \/ /\ Writing(p, "buy_stock")
        /\ Write(p, [Tables EXCEPT
             !.t = @ \o << Txn(r.kid, "buy", "cash", -ToCents(r.amount), r.caller, meta),
                           Txn(r.kid, "buy", "stock", ToCents(r.amount), r.caller, meta) >>,
             !.pos = UpsertPosition(@, r.kid, r.ticker, loc[p].v_shares,
                                    ToCents(r.amount))])

sell_stock(p) ==
  LET r == req[p]
      v_price == LatestPrice(r.ticker)
      v_position == PositionOf(r.kid, r.ticker)
      v_shares_to_sell == IF r.amount = 0 THEN v_position.shares
                          ELSE SharesFor(r.amount, v_price)
      v_actual_proceeds == IF r.amount = 0 THEN SharesValue(v_shares_to_sell, v_price)
                           ELSE ToCents(r.amount)
      v_cost_of_sold == CostOfSold(v_position, v_shares_to_sell)
      v_gain == v_actual_proceeds - v_cost_of_sold
      l == loc[p]
      meta == [ticker |-> r.ticker, shares |-> l.v_shares,
               price_per_share |-> l.v_price, realized_gain_loss |-> l.v_gain]
  IN
  /\ UNCHANGED Env
  /\ \/ /\ Waiting(p, "sell_stock")
        /\ IF v_price = 0 THEN Fail(p, "NoPriceData")
           ELSE IF v_position = NoPosition \/ v_position.shares <= 0
             THEN Fail(p, "NoShares")
           ELSE IF r.amount # 0 /\ Oversold(v_shares_to_sell, v_position)
             THEN Fail(p, "InsufficientShares")
           ELSE Proceed(p, r.kid, [EmptyLoc EXCEPT
                  !.v_price = v_price, !.v_position = v_position,
                  !.v_shares = v_shares_to_sell, !.v_proceeds = v_actual_proceeds,
                  !.v_cost_of_sold = v_cost_of_sold, !.v_gain = v_gain])
     \/ /\ Writing(p, "sell_stock")
        /\ Write(p, [Tables EXCEPT
             !.t = @ \o << Txn(r.kid, "sell", "cash", l.v_proceeds, r.caller, meta),
                           Txn(r.kid, "sell", "stock", -l.v_proceeds, r.caller, meta) >>,
             !.pos = ReducePosition(@, r.kid, r.ticker, l.v_position,
                                    l.v_shares, l.v_cost_of_sold)])

spend_from_stock(p) ==
  LET r == req[p]
      v_price == LatestPrice(r.ticker)
      v_position == PositionOf(r.kid, r.ticker)
      v_shares_to_sell == SharesFor(r.amount, v_price)
      v_cost_of_sold == CostOfSold(v_position, v_shares_to_sell)
      v_gain == ToCents(r.amount) - v_cost_of_sold
      l == loc[p]
  IN
  /\ UNCHANGED Env
  /\ \/ /\ Waiting(p, "spend_from_stock")
        /\ IF v_price = 0 THEN Fail(p, "NoPriceData")
           ELSE IF v_position = NoPosition \/ v_position.shares <= 0
             THEN Fail(p, "NoShares")
           ELSE IF Oversold(v_shares_to_sell, v_position)
             THEN Fail(p, "InsufficientShares")
           ELSE Proceed(p, r.kid, [EmptyLoc EXCEPT
                  !.v_price = v_price, !.v_position = v_position,
                  !.v_shares = v_shares_to_sell,
                  !.v_cost_of_sold = v_cost_of_sold, !.v_gain = v_gain])
     \/ /\ Writing(p, "spend_from_stock")
        /\ Write(p, [Tables EXCEPT
             !.t = @ \o
               << Txn(r.kid, "sell", "stock", -ToCents(r.amount), r.caller,
                      [ticker |-> r.ticker, shares |-> l.v_shares,
                       price_per_share |-> l.v_price,
                       realized_gain_loss |-> l.v_gain, reason |-> "spend"]),
                  Txn(r.kid, "sell", "cash", ToCents(r.amount), r.caller,
                      [ticker |-> r.ticker, reason |-> "spend"]),
                  Txn(r.kid, "withdraw", "cash", -ToCents(r.amount), r.caller,
                      [funded_from |-> "stock", ticker |-> r.ticker,
                       realized_gain_loss |-> l.v_gain]) >>,
             !.pos = ReducePosition(@, r.kid, r.ticker, l.v_position,
                                    l.v_shares, l.v_cost_of_sold)])

\* ---------------------------------------------------------- the call itself
AmountOps == {"deposit_to_cash", "withdraw_from_cash", "invest_in_mmf",
              "redeem_from_mmf", "spend_from_mmf"}
TickerOps == {"buy_stock", "sell_stock", "spend_from_stock"}
LotOps    == {"mature_cd", "break_cd"}

\* the row-level security policy "household_only" of cd_lots: a session sees
\* the rows of the kids of its caller's household
household_only(caller, kid_id) ==
  /\ caller \in Callers /\ kid_id \in Kids
  /\ KidHousehold(kid_id) = AdminHousehold(caller)

\* the lot row a mature_cd or break_cd call fetches (SELECT cl.* INTO v_lot).
\* The functions are SECURITY INVOKER, so the SELECT runs under the policy.
FetchLot(caller, id) ==
  IF id \in 1..Len(cd_lots) /\ household_only(caller, cd_lots[id].kid)
  THEN cd_lots[id] ELSE NoLot

\* the statements of an RPC that precede pg_advisory_xact_lock: the outcome
\* is "ok" when the call reaches the lock, else the exception raised
PreLock(r) ==
  CASE r.op \in AmountOps ->
         IF Unauthorized(r.caller, r.kid) THEN "Unauthorized"
         ELSE IF InvalidAmount(r.amount) THEN "InvalidAmount"
         ELSE "ok"
    [] r.op = "accrue_mmf_interest" ->
         IF Unauthorized(r.caller, r.kid) THEN "Unauthorized" ELSE "ok"
    [] r.op = "create_cd" ->
         IF Unauthorized(r.caller, r.kid) THEN "Unauthorized"
         ELSE IF r.term \notin {3, 6, 12} THEN "InvalidTerm"
         ELSE IF InvalidAmount(r.amount) THEN "InvalidAmount"
         ELSE "ok"
    [] r.op \in {"buy_stock", "spend_from_stock"} ->
         IF Unauthorized(r.caller, r.kid) THEN "Unauthorized"
         ELSE IF InvalidTicker(r.ticker) THEN "InvalidTicker"
         ELSE IF InvalidAmount(r.amount) THEN "InvalidAmount"
         ELSE "ok"
    [] r.op = "sell_stock" ->
         IF Unauthorized(r.caller, r.kid) THEN "Unauthorized"
         ELSE IF InvalidTicker(r.ticker) THEN "InvalidTicker"
         ELSE IF r.amount < 0 \/ r.amount > MaxAmountMills THEN "InvalidAmount"
         ELSE IF r.amount > 0 /\ r.amount # Round2Mills(r.amount) THEN "InvalidAmount"
         ELSE "ok"
    [] r.op = "mature_cd" ->
         IF FetchLot(r.caller, r.lot) = NoLot THEN "NotFound"
         ELSE IF Unauthorized(r.caller, FetchLot(r.caller, r.lot).kid) THEN "Unauthorized"
         ELSE IF FetchLot(r.caller, r.lot).status # "active" THEN "InvalidState"
         ELSE IF FetchLot(r.caller, r.lot).maturity_date > today THEN "NotYetMatured"
         ELSE "ok"
    [] r.op = "break_cd" ->
         IF FetchLot(r.caller, r.lot) = NoLot THEN "NotFound"
         ELSE IF Unauthorized(r.caller, FetchLot(r.caller, r.lot).kid) THEN "Unauthorized"
         ELSE IF FetchLot(r.caller, r.lot).status # "active" THEN "InvalidState"
         ELSE "ok"

\* a session invokes an RPC and runs it up to pg_advisory_xact_lock; calls
\* are made while the ledger holds fewer than max rows
StartCall(p, r, max) ==
  /\ pc[p] = "idle"
  /\ Len(transactions) < max
  /\ r.op = "create_cd" => Len(cd_lots) < MaxLots
  /\ UNCHANGED <<transactions, cd_lots, stock_positions, lock>>
  /\ LET err == PreLock(r) IN
       IF err = "ok"
       THEN /\ pc' = [pc EXCEPT ![p] = "wait"]
            /\ req' = [req EXCEPT ![p] = r]
            /\ ret' = "none"
            /\ loc' = [loc EXCEPT ![p] = [EmptyLoc EXCEPT !.v_lot =
                         IF r.op \in LotOps THEN FetchLot(r.caller, r.lot) ELSE NoLot]]
       ELSE /\ ret' = err
            /\ UNCHANGED <<pc, req, loc>>

CallWithin(p, r, max) == StartCall(p, r, max) /\ UNCHANGED Env

Call(p, r) == CallWithin(p, r, MaxTxns)

\* ---------------------------------------------------------- client reads
\* Money is kept in cents.  The client sums IEEE doubles; for a ledger of rows
\* within chk_amount_range the double sum is within a millionth of a cent of
\* the exact sum, and the cent-rounded value the UI shows is the exact sum.
RECURSIVE Reduce(_, _)
\* rows.reduce((sum, row) => sum + Number(row.amount), 0)
Reduce(rows, sum) ==
  IF rows = << >> THEN sum ELSE Reduce(Tail(rows), sum + Head(rows).amount)

\* variant: the .eq('bucket', 'cash') filter left out
getCashBalanceAnyBucket(kidId) ==
  Reduce(SelectSeq(transactions, LAMBDA row : row.kid = kidId), 0)

getCashBalance(kidId) ==
  Reduce(SelectSeq(transactions, LAMBDA row : row.kid = kidId /\ row.bucket = "cash"), 0)

getMmfBalance(kidId) ==
  Reduce(SelectSeq(transactions, LAMBDA row : row.kid = kidId /\ row.bucket = "mmf"), 0)

getCdLots(kidId) == SelectSeq(cd_lots, LAMBDA lot : lot.kid = kidId)

RECURSIVE ReducePrincipal(_, _)
\* lots.reduce((sum, lot) => sum + Number(lot.principal), 0)
ReducePrincipal(lots, sum) ==
  IF lots = << >> THEN sum
  ELSE ReducePrincipal(Tail(lots), sum + Head(lots).principal)

\* variant: the status filter left out, so repaid lots still count
cdTotalAnyStatus(kidId) == ReducePrincipal(getCdLots(kidId), 0)

\* getPortfolioSummary's cdTotal, which it reports as cd_total
cdTotal(kidId) ==
  ReducePrincipal(SelectSeq(getCdLots(kidId), LAMBDA lot : lot.status = "active"), 0)

\* ---------------------------------------------------------- environment
Calm == \A p \in Sessions : pc[p] = "idle"

\* the clock moves on to day d; calls are short and none is taken to
\* straddle midnight
Tick(d) ==
  /\ Calm
  /\ d > today /\ d <= MaxDay
  /\ today' = d
  /\ ret' = "none"
  /\ UNCHANGED <<transactions, cd_lots, stock_positions, stock_prices, settings,
                 lock, pc, req, loc, page, flow, portfolio>>

\* the price job upserts today's closes of the given tickers in one batch
\* (onConflict: "ticker,date").  An RPC reads prices in one statement, so the
\* job running during a call is the job running before or after it.
PriceFeed(closes) ==
  /\ Calm
  /\ \A t \in DOMAIN closes : t \in Tickers /\ closes[t] > 0
  /\ stock_prices' = [t \in Tickers |->
                        IF t \in DOMAIN closes THEN closes[t] ELSE stock_prices[t]]
  /\ stock_prices' # stock_prices
  /\ ret' = "none"
  /\ UNCHANGED <<transactions, cd_lots, stock_positions, settings, today,
                 lock, pc, req, loc, page, flow, portfolio>>

\* validate_setting
SettingOk(key, value) ==
  CASE key \in {"mmf_apy", "cd_3m_apy", "cd_6m_apy", "cd_12m_apy"} ->
         value >= 0 /\ value <= 2000
    [] key = "stock_position_limit" -> value >= 1 /\ value <= 10
    [] key = "hanzi_dojo_conversion_rate" -> value >= 1 /\ value <= 1000
    [] OTHER -> FALSE

\* an administrator updates a settings row; as for prices, an RPC reads a
\* setting in one statement
UpdateSetting(key, value) ==
  /\ Calm
  /\ SettingOk(key, value)
  /\ settings[key] # value
  /\ settings' = [settings EXCEPT ![key] = value]
  /\ ret' = "none"
  /\ UNCHANGED <<transactions, cd_lots, stock_positions, stock_prices, today,
                 lock, pc, req, loc, page, flow, portfolio>>

\* ---- direct statements against the ledger table
\* variant: the trigger function returns the row instead of raising
trigger_returns_row(tg_op) == "ok"

\* prevent_txn_mutation, fired BEFORE UPDATE OR DELETE FOR EACH ROW: it raises
\* whatever TG_OP is
prevent_txn_mutation(tg_op) == "AppendOnly"

\* what the statement would leave of the table: row i deleted, or its amount
\* set to v
Mutated(t, i, tg_op, v) ==
  IF tg_op = "DELETE"
  THEN SubSeq(t, 1, i - 1) \o SubSeq(t, i + 1, Len(t))
  ELSE [t EXCEPT ![i] = [@ EXCEPT !.amount = v]]

\* a client issues UPDATE transactions SET amount = v, or DELETE, for row i
MutateEntry(i, tg_op, v) ==
  /\ Calm
  /\ i \in 1..Len(transactions)
  /\ tg_op \in {"UPDATE", "DELETE"}
  /\ LET err == prevent_txn_mutation(tg_op) IN
       /\ transactions' = IF err = "ok" THEN Mutated(transactions, i, tg_op, v)
                          ELSE transactions
       /\ ret' = err
  /\ UNCHANGED <<cd_lots, stock_positions, stock_prices, settings, today,
                 lock, pc, req, loc, page, flow, portfolio>>

\* ---- the Add Money page (Hanzi Dojo points)
\* .limit(50) of the lastSnapshot query
SnapshotLimit == 50

\* the rows the lastSnapshot query filters: the kid's cash deposits that
\* carry metadata
SnapshotRows(t, k) ==
  {i \in 1..Len(t) : /\ t[i].kid = k /\ t[i].type = "deposit"
                     /\ t[i].bucket = "cash" /\ t[i].metadata # NoMetadata}

\* ... ORDER BY created_at DESC LIMIT 50: the newest SnapshotLimit of them
\* (rows are created in the order of the table)
SnapshotWindow(t, k) ==
  {i \in SnapshotRows(t, k) :
     Cardinality({j \in SnapshotRows(t, k) : j > i}) < SnapshotLimit}

\* metadata.source === 'hanzi_dojo'
HanziTagged(row) == row.metadata.source = "hanzi_dojo"

\* queryFn of lastSnapshot: points_total of the first tagged row among those
\* fetched, null when there is none
LastSnapshot(t, k) ==
  LET hits == {i \in SnapshotWindow(t, k) : HanziTagged(t[i])} IN
  IF hits = {} THEN NoSnapshot
  ELSE t[CHOOSE i \in hits : \A j \in hits : j <= i].metadata.points_total

\* the lastSnapshot query answers for the selected kid (kid selected, page
\* shown again, window focused)
lastSnapshotQuery(p, k) ==
  /\ pc[p] = "idle" /\ page[p].phase = "form"
  /\ page' = [page EXCEPT ![p] = [kidId |-> k, phase |-> "form",
                                  lastSnapshot |-> LastSnapshot(transactions, k)]]
  /\ ret' = "none"
  /\ UNCHANGED <<transactions, cd_lots, stock_positions, stock_prices, settings,
                 today, lock, pc, req, loc, flow,
                 portfolio>>

\* handleRequestConfirm with Hanzi Dojo Points selected and pointsTotal
\* entered, followed by handleConfirm up to the RPC request
handleRequestConfirm(p, caller, pointsTotal, max) ==
  LET lastPoints == IF page[p].lastSnapshot = NoSnapshot THEN 0
                    ELSE page[p].lastSnapshot
      pointsDelta == pointsTotal - lastPoints
      \* Math.round(pointsDelta * conversionRate * 100) / 100, in mills; the
      \* rate is kept in cents a point
      hanziAmount == 10 * pointsDelta * settings.hanzi_dojo_conversion_rate
      r == DepositRequest(caller, page[p].kidId, hanziAmount, "hanzi_dojo",
                          [points_total |-> pointsTotal, points_delta |-> pointsDelta])
  IN
  /\ pc[p] = "idle" /\ page[p].phase = "form" /\ page[p].kidId \in Kids
  /\ UNCHANGED <<stock_prices, settings, today, flow, portfolio>>
  /\ IF pointsDelta <= 0
     THEN /\ ret' = (IF pointsDelta = 0 THEN "NoNewPoints" ELSE "RegressionDetected")
          /\ UNCHANGED <<transactions, cd_lots, stock_positions, lock, pc, req,
                         loc, page>>
     ELSE /\ StartCall(p, r, max)
          /\ page' = [page EXCEPT ![p].phase =
                        IF PreLock(r) = "ok" THEN "confirming" ELSE "form"]

\* handleConfirm after the RPC has answered: invalidate() refetches lastSnapshot
invalidate(p) ==
  /\ pc[p] = "idle" /\ page[p].phase = "confirming"
  /\ page' = [page EXCEPT ![p] = [kidId |-> @.kidId, phase |-> "form",
                 lastSnapshot |-> LastSnapshot(transactions, @.kidId)]]
  /\ ret' = "none"
  /\ UNCHANGED <<transactions, cd_lots, stock_positions, stock_prices, settings,
                 today, lock, pc, req, loc, flow,
                 portfolio>>

\* ---- the confirm-before-submit flow of a money page (useActionFlow with
\* ---- ConfirmAction and SuccessCard)
\* variant: the buttons carry no disabled attribute
NeverDisabled(isSubmitting) == FALSE

\* disabled={isSubmitting} of the Cancel and Confirm buttons
Disabled(isSubmitting) == isSubmitting

\* the page shows ConfirmAction in place of the form
ConfirmShown == flow.phase = "confirming" /\ flow.summary # NoReq

\* a step of the page that sends nothing and touches no table
PageOnly ==
  /\ ret' = "none"
  /\ UNCHANGED <<transactions, cd_lots, stock_positions, stock_prices, settings,
                 today, lock, pc, req, loc, page, portfolio>>

\* the form is submitted with call r filled in: handleRequestConfirm calls
\* flow.requestConfirmation.  The form is rendered unless the success card or
\* the confirmation card stands in its place.
requestConfirmation(r) ==
  /\ flow.phase # "success" /\ ~ ConfirmShown
  /\ flow' = [phase |-> "confirming", summary |-> r, result |-> "none",
              error |-> "none", isSubmitting |-> FALSE]
  /\ PageOnly

\* a click on Confirm: flow.confirm sets isSubmitting and runs the action,
\* which sends the RPC on a connection q of the client and awaits the answer
confirm(q, max) ==
  /\ ConfirmShown /\ ~ Disabled(flow.isSubmitting)
  /\ flow' = [flow EXCEPT !.isSubmitting = TRUE, !.error = "none"]
  /\ StartCall(q, flow.summary, max)
  /\ UNCHANGED <<stock_prices, settings, today, page, portfolio>>

\* the awaited action settles: the success state, or the catch branch, which
\* keeps the phase and shows the error
confirmSettled ==
  /\ flow.isSubmitting /\ \A q \in Sessions : pc[q] = "idle"
  /\ flow' = IF ret = "ok"
             THEN [phase |-> "success", summary |-> NoReq, result |-> "done",
                   error |-> "none", isSubmitting |-> FALSE]
             ELSE [flow EXCEPT !.isSubmitting = FALSE, !.error = ret]
  /\ PageOnly

\* a click on Cancel
cancel ==
  /\ ConfirmShown /\ ~ Disabled(flow.isSubmitting)
  /\ flow' = INITIAL_STATE
  /\ PageOnly

\* "Do Another" on the success card: handleDoAnother calls flow.reset
reset ==
  /\ flow.phase = "success"
  /\ flow' = INITIAL_STATE
  /\ PageOnly

\* ---- getPortfolioSummary behind the ['portfolio', kidId] query of a kid's
\* ---- card.  Promise.all sends its four reads together; each is a statement
\* ---- of its own, answered from the rows committed when it runs, and they
\* ---- come back in any order
\* getStockPositions' first read: the kid's positions with shares > 0
getPositions(kidId) ==
  SelectSeq(stock_positions, LAMBDA pos : pos.kid = kidId /\ pos.shares > 0)

RECURSIVE ReduceValue(_, _, _)
\* getStockPositions' current_value of each position, Math.round(shares *
\* currentPrice * 100) / 100 with a ticker without a price at 0, summed by
\* (stockPositions ?? []).reduce((sum, pos) => sum + pos.current_value, 0)
ReduceValue(positions, latestPrices, sum) ==
  IF positions = << >> THEN sum
  ELSE ReduceValue(Tail(positions), latestPrices,
                   sum + SharesValue(Head(positions).shares,
                                     latestPrices[Head(positions).ticker]))

\* what getPortfolioSummary returns from the reads s has got back
getPortfolioSummary(s) ==
  [cash |-> s.cash, mmf |-> s.mmf, cd_total |-> s.cdTotal,
   stock_total |-> s.stockTotal,
   grand_total |-> s.cash + s.mmf + s.cdTotal + s.stockTotal]

\* the grand_total of reads all taken in the current state
TotalNow(kidId) ==
  getCashBalance(kidId) + getMmfBalance(kidId) + cdTotal(kidId)
    + ReduceValue(getPositions(kidId), stock_prices, 0)

\* a step of the query, which sends no call and writes no table
PortfolioOnly ==
  /\ ret' = "none"
  /\ UNCHANGED <<transactions, cd_lots, stock_positions, stock_prices, settings,
                 today, lock, pc, req, loc, page, flow>>

\* the query runs (mount, refetch or invalidation): the four reads are sent
usePortfolio(kidId) ==
  /\ kidId \in Kids /\ portfolio.pending = {}
  /\ portfolio' = [NoSummary EXCEPT
                     !.kid = kidId,
                     !.pending = {"cash", "mmf", "cdLots", "positions"},
                     !.fired = [rows |-> Len(transactions),
                                prices |-> stock_prices,
                                total |-> TotalNow(kidId)]]
  /\ PortfolioOnly

\* read q is answered.  getStockPositions sends its prices read once its
\* positions read has come back with a row, and returns [] without one
settle(q) ==
  /\ q \in portfolio.pending
  /\ portfolio' =
       CASE q = "cash" ->
              [portfolio EXCEPT !.pending = @ \ {q},
                                !.cash = getCashBalance(portfolio.kid)]
         [] q = "mmf" ->
              [portfolio EXCEPT !.pending = @ \ {q},
                                !.mmf = getMmfBalance(portfolio.kid)]
         [] q = "cdLots" ->
              [portfolio EXCEPT !.pending = @ \ {q},
                                !.cdTotal = cdTotal(portfolio.kid)]
         [] q = "positions" ->
              [portfolio EXCEPT
                 !.pending = (@ \ {q}) \cup
                     (IF getPositions(portfolio.kid) = << >> THEN {} ELSE {"prices"}),
                 !.positions = getPositions(portfolio.kid)]
         [] q = "prices" ->
              [portfolio EXCEPT
                 !.pending = @ \ {q},
                 !.stockTotal = ReduceValue(portfolio.positions, stock_prices, 0)]
  /\ PortfolioOnly

\* ---------------------------------------------------------- specifications
\* dollars as an RPC amount parameter (mills)
Dollars(n) == n * 1000
\* dollars as a close_price (1/10000 dollar)
Price(n) == n * 10000

\* ---- Spec: every RPC called by one session for a kid of its household,
\* ---- for a kid of another household, and with invalid parameters
AllRequests ==
  { Request("deposit_to_cash", "Melody", "Aiden", Dollars(a), "-", 0, 0) :
      a \in {30, 50, MaxAmountDollars} }
  \cup { Request("withdraw_from_cash", "Melody", "Aiden", Dollars(a), "-", 0, 0) :
           a \in {80, 100} }
  \cup { Request(op, "Melody", "Aiden", Dollars(50), "-", 0, 0) :
           op \in {"invest_in_mmf", "redeem_from_mmf"} }
  \cup { Request("spend_from_mmf", "Melody", "Aiden", Dollars(30), "-", 0, 0) }
  \cup { Request("withdraw_from_cash", "Melody", k, a, "-", 0, 0) :
           k \in {"Aiden", "QA-Alice"}, a \in {0, 5, Dollars(100000) + 10} }
  \cup { Request("accrue_mmf_interest", "Melody", "Aiden", 0, "-", 0, 0) }
  \cup { Request("create_cd", "Melody", "Aiden", Dollars(50), "-", t, 0) : t \in {3, 4} }
  \cup { Request("create_cd", "Melody", "Aiden", Dollars(MaxAmountDollars), "-", 3, 0) }
  \cup { Request(op, "Melody", "-", 0, "-", 0, l) : op \in LotOps, l \in {1, 2} }
  \cup { Request("buy_stock", "Melody", "Aiden", Dollars(50), t, 0, 0) :
           t \in {"AAPL", "VTI", "aapl"} }
  \cup { Request("sell_stock", "Melody", "Aiden", Dollars(a), "AAPL", 0, 0) : a \in {0, 80} }
  \cup { Request("spend_from_stock", "Melody", "Aiden", Dollars(30), "AAPL", 0, 0) }

Next ==
  \/ \E r \in AllRequests : Call("s1", r)
  \/ deposit_to_cash("s1")
  \/ withdraw_from_cash("s1")
  \/ invest_in_mmf("s1")
  \/ redeem_from_mmf("s1")
  \/ accrue_mmf_interest("s1")
  \/ spend_from_mmf("s1")
  \/ create_cd("s1")
  \/ mature_cd("s1")
  \/ break_cd("s1")
  \/ buy_stock("s1")
  \/ sell_stock("s1")
  \/ spend_from_stock("s1")
  \/ Tick(90)
  \/ PriceFeed([t \in Tickers |-> Price(800)])
  \/ \E v \in {1, 5} : UpdateSetting("stock_position_limit", v)
  \/ \E i \in 1..MaxTxns, tg_op \in {"UPDATE", "DELETE"} : MutateEntry(i, tg_op, 0)

Spec == Init /\ [][Next]_vars

\* ---- SpecRace: two sessions run the balance-decreasing RPCs on one kid
RaceRequests ==
  { Request("deposit_to_cash", "Melody", "Aiden", Dollars(80), "-", 0, 0) }
  \cup { Request("withdraw_from_cash", "Melody", "Aiden", Dollars(a), "-", 0, 0) :
           a \in {50, 80} }
  \cup { Request(op, "Melody", "Aiden", Dollars(50), "-", 0, 0) :
           op \in {"invest_in_mmf", "redeem_from_mmf", "spend_from_mmf"} }
  \cup { Request("create_cd", "Melody", "Aiden", Dollars(50), "-", 3, 0) }
  \cup { Request("buy_stock", "Melody", "Aiden", Dollars(50), "AAPL", 0, 0) }

NextRace ==
  \/ \E p \in Sessions, r \in RaceRequests : Call(p, r)
  \/ \E p \in Sessions : deposit_to_cash(p)
  \/ \E p \in Sessions : withdraw_from_cash(p)
  \/ \E p \in Sessions : invest_in_mmf(p)
  \/ \E p \in Sessions : redeem_from_mmf(p)
  \/ \E p \in Sessions : spend_from_mmf(p)
  \/ \E p \in Sessions : create_cd(p)
  \/ \E p \in Sessions : buy_stock(p)
  \/ PriceFeed([t \in {"AAPL"} |-> Price(800)])

SpecRace == Init /\ [][NextRace]_vars

\* ---- SpecLots: two sessions create, mature and break term-deposit lots
LotRequests ==
  { Request("deposit_to_cash", "Melody", "Aiden", Dollars(100), "-", 0, 0) }
  \cup { Request("create_cd", "Melody", "Aiden", Dollars(100), "-", 3, 0) }
  \cup { Request(op, "Melody", "-", 0, "-", 0, 1) : op \in LotOps }

NextLots ==
  \/ \E p \in Sessions, r \in LotRequests : Call(p, r)
  \/ \E p \in Sessions : deposit_to_cash(p)
  \/ \E p \in Sessions : create_cd(p)
  \/ \E p \in Sessions : mature_cd(p)
  \/ \E p \in Sessions : break_cd(p)
  \/ \E d \in {45, 90} : Tick(d)

SpecLots == Init /\ [][NextLots]_vars

\* ---- SpecMmf: two sessions invest in the money-market fund and accrue
\* interest on it while the days pass
Cents(n) == n * 10

MmfRequests ==
  { Request("deposit_to_cash", "Melody", "Aiden", Dollars(100), "-", 0, 0) }
  \cup { Request("invest_in_mmf", "Melody", "Aiden", a, "-", 0, 0) :
           a \in {Dollars(100), Cents(1250), Dollars(1)} }
  \cup { Request("accrue_mmf_interest", "Melody", "Aiden", 0, "-", 0, 0) }

NextMmf ==
  \/ \E p \in Sessions, r \in MmfRequests : CallWithin(p, r, MaxMmfTxns)
  \/ \E p \in Sessions : deposit_to_cash(p)
  \/ \E p \in Sessions : invest_in_mmf(p)
  \/ \E p \in Sessions : accrue_mmf_interest(p)
  \/ \E d \in {30, 73} : Tick(d)
  \/ UpdateSetting("mmf_apy", 1000)

SpecMmf == Init /\ [][NextMmf]_vars

\* ---- SpecCd: one session creates term deposits of every term, matures and
\* breaks them early, on time and late, while a rate setting is changed
CdRequests ==
  { Request("deposit_to_cash", "Melody", "Aiden", Dollars(100), "-", 0, 0) }
  \cup { Request("create_cd", "Melody", "Aiden", Dollars(100), "-", term, 0) :
           term \in {3, 4, 6, 12} }
  \cup { Request("create_cd", "Melody", "Aiden", Dollars(150), "-", 3, 0) }
  \cup { Request(op, "Melody", "-", 0, "-", 0, 1) : op \in LotOps }

NextCd ==
  \/ \E r \in CdRequests : Call("s1", r)
  \/ deposit_to_cash("s1")
  \/ create_cd("s1")
  \/ mature_cd("s1")
  \/ break_cd("s1")
  \/ \E d \in {1, 45, 90, 120} : Tick(d)
  \/ UpdateSetting("cd_3m_apy", 600)

SpecCd == Init /\ [][NextCd]_vars

\* ---- SpecBuys: two sessions buy the two tickers for one kid and sell them
\* again while the position limit is lowered to one
BuyRequests ==
  { Request("deposit_to_cash", "Melody", "Aiden", Dollars(100), "-", 0, 0) }
  \cup { Request("buy_stock", "Melody", "Aiden", Dollars(50), t, 0, 0) :
           t \in Tickers }
  \cup { Request("sell_stock", "Melody", "Aiden", 0, "AAPL", 0, 0) }

NextBuys ==
  \/ \E p \in Sessions, r \in BuyRequests : Call(p, r)
  \/ \E p \in Sessions : deposit_to_cash(p)
  \/ \E p \in Sessions : buy_stock(p)
  \/ \E p \in Sessions : sell_stock(p)
  \/ PriceFeed([t \in Tickers |-> Price(800)])
  \/ \E v \in {1, 5} : UpdateSetting("stock_position_limit", v)

SpecBuys == Init /\ [][NextBuys]_vars

\* ---- SpecStock: one session buys, sells and spends from two stocks while
\* their prices move
StockRequests ==
  { Request("deposit_to_cash", "Melody", "Aiden", Dollars(300), "-", 0, 0) }
  \cup { Request("buy_stock", "Melody", "Aiden", Dollars(a), "AAPL", 0, 0) :
           a \in {100, 200} }
  \cup { Request("buy_stock", "Melody", "Aiden", Dollars(10), "VTI", 0, 0) }
  \cup { Request("sell_stock", "Melody", "Aiden", Dollars(a), "AAPL", 0, 0) :
           a \in {0, 100, 400} }
  \cup { Request("sell_stock", "Melody", "Aiden", Cents(125), "VTI", 0, 0) }
  \cup { Request("spend_from_stock", "Melody", "Aiden", Dollars(a), "AAPL", 0, 0) :
           a \in {100, 400} }

NextStock ==
  \/ \E r \in StockRequests : CallWithin("s1", r, MaxStockTxns)
  \/ deposit_to_cash("s1")
  \/ buy_stock("s1")
  \/ sell_stock("s1")
  \/ spend_from_stock("s1")
  \/ PriceFeed("AAPL" :> Price(800) @@ "VTI" :> Price(93))
  \/ PriceFeed("AAPL" :> Price(900) @@ "VTI" :> Price(186))

SpecStock == Init /\ [][NextStock]_vars

\* ---- two clients with the Add Money page open on one kid
MaxSnapTxns == 4

\* a deposit from the page with another source selected
ChoresDeposit == DepositRequest("Melody", "Aiden", Dollars(1), "chores", NoMetadata)

NextSnap ==
  \/ \E p \in Sessions : lastSnapshotQuery(p, "Aiden")
  \/ \E p \in Sessions, n \in {400, 500, 658} :
       handleRequestConfirm(p, "Melody", n, MaxSnapTxns)
  \/ \E p \in Sessions : invalidate(p)
  \/ \E p \in Sessions : CallWithin(p, ChoresDeposit, MaxSnapTxns)
  \/ \E p \in Sessions : deposit_to_cash(p)

SpecSnap == Init /\ [][NextSnap]_vars

\* ---- one client, points entries with many other deposits in between
MaxWindowTxns == 52

NextWindow ==
  \/ lastSnapshotQuery("s1", "Aiden")
  \/ handleRequestConfirm("s1", "Melody", 500, MaxWindowTxns)
  \/ invalidate("s1")
  \/ CallWithin("s1", ChoresDeposit, MaxWindowTxns)
  \/ deposit_to_cash("s1")

SpecWindow == Init /\ [][NextWindow]_vars

\* ---- two sessions working on two kids of two households
KidRequests ==
  UNION { { Request("deposit_to_cash", uk[1], uk[2], Dollars(100), "-", 0, 0),
            Request("withdraw_from_cash", uk[1], uk[2], Dollars(50), "-", 0, 0),
            Request("create_cd", uk[1], uk[2], Dollars(50), "-", 3, 0),
            Request("buy_stock", uk[1], uk[2], Dollars(50), "AAPL", 0, 0),
            Request("sell_stock", uk[1], uk[2], 0, "AAPL", 0, 0) } :
          uk \in {x \in Callers \X Kids : AdminHousehold(x[1]) = KidHousehold(x[2])} }
  \cup { Request("withdraw_from_cash", "Melody", "QA-Alice", Dollars(50), "-", 0, 0) }
  \cup { Request("break_cd", u, "-", 0, "-", 0, 1) : u \in Callers }

NextKids ==
  \/ \E p \in Sessions, r \in KidRequests : Call(p, r)
  \/ \E p \in Sessions : deposit_to_cash(p)
  \/ \E p \in Sessions : withdraw_from_cash(p)
  \/ \E p \in Sessions : create_cd(p)
  \/ \E p \in Sessions : break_cd(p)
  \/ \E p \in Sessions : buy_stock(p)
  \/ \E p \in Sessions : sell_stock(p)
  \/ PriceFeed([t \in {"AAPL"} |-> Price(800)])

SpecKids == Init /\ [][NextKids]_vars

\* ---- two sessions, two kids, with the lock manager's queueing: a call
\* that has started is given its statements' turns, and a call waiting for a
\* kid's lock is not passed over for ever
MaxLiveTxns == 3

LiveRequests ==
  UNION { { Request("deposit_to_cash", uk[1], uk[2], Dollars(100), "-", 0, 0),
            Request("withdraw_from_cash", uk[1], uk[2], Dollars(50), "-", 0, 0),
            Request("create_cd", uk[1], uk[2], Dollars(50), "-", 3, 0) } :
          uk \in {x \in Callers \X Kids : AdminHousehold(x[1]) = KidHousehold(x[2])} }
  \cup { Request("withdraw_from_cash", "Melody", "QA-Alice", Dollars(50), "-", 0, 0) }
  \cup { Request("break_cd", u, "-", 0, "-", 0, 1) : u \in Callers }

\* the statements of session p's call in progress
RpcStep(p) ==
  \/ deposit_to_cash(p)
  \/ withdraw_from_cash(p)
  \/ create_cd(p)
  \/ break_cd(p)

NextLive ==
  \/ \E p \in Sessions, r \in LiveRequests : CallWithin(p, r, MaxLiveTxns)
  \/ \E p \in Sessions : RpcStep(p)

SpecLive ==
  /\ Init /\ [][NextLive]_vars
  /\ \A p \in Sessions : SF_vars(RpcStep(p))

\* ---- SpecAuth: an administrator of one household calls every RPC for a kid
\* ---- and a lot of the other household, which its own administrator funds
AuthRequests ==
  { Request("deposit_to_cash", "Melody", "Aiden", Dollars(100), "-", 0, 0),
    Request("deposit_to_cash", "testuser", "QA-Alice", Dollars(100), "-", 0, 0),
    Request("create_cd", "Melody", "Aiden", Dollars(50), "-", 3, 0),
    Request("buy_stock", "Melody", "Aiden", Dollars(50), "AAPL", 0, 0) }
  \cup { Request(op, "testuser", "Aiden", a, "-", 0, 0) :
           op \in AmountOps \cup {"accrue_mmf_interest"}, a \in {0, Dollars(50)} }
  \cup { Request("create_cd", "testuser", "Aiden", Dollars(50), "-", term, 0) :
           term \in {3, 4} }
  \cup { Request(op, "testuser", "Aiden", Dollars(50), t, 0, 0) :
           op \in TickerOps, t \in {"AAPL", "aapl"} }
  \cup { Request(op, u, "-", 0, "-", 0, 1) : op \in LotOps, u \in Callers }

NextAuth ==
  \/ \E r \in AuthRequests : Call("s1", r)
  \/ deposit_to_cash("s1")
  \/ create_cd("s1")
  \/ mature_cd("s1")
  \/ break_cd("s1")
  \/ buy_stock("s1")
  \/ Tick(90)
  \/ PriceFeed([t \in {"AAPL"} |-> Price(800)])

SpecAuth == Init /\ [][NextAuth]_vars

\* ---- SpecAmounts: one session calls every RPC that takes an amount with
\* ---- amounts that are negative, zero, too large or too fine, and with good ones
AmountRequests ==
  { Request(op, "Melody", "Aiden", a, "-", term, 0) :
      op \in AmountOps \cup {"create_cd"},
      a \in {-Dollars(1), 0, 5, Dollars(50) + 5, Dollars(50),
             Dollars(MaxAmountDollars), Dollars(MaxAmountDollars) + 10},
      term \in {3} }
  \cup { Request(op, "Melody", "Aiden", a, "AAPL", 0, 0) :
           op \in TickerOps,
           a \in {-Dollars(1), 0, 5, Dollars(50) + 5, Dollars(50),
                  Dollars(MaxAmountDollars) + 10} }
  \cup { Request("create_cd", "Melody", "Aiden", 0, "-", 4, 0),
         Request("buy_stock", "Melody", "Aiden", 5, "aapl", 0, 0),
         Request("sell_stock", "Melody", "Aiden", -Dollars(1), "aapl", 0, 0),
         Request("deposit_to_cash", "testuser", "Aiden", 0, "-", 0, 0) }

NextAmounts ==
  \/ \E r \in AmountRequests : Call("s1", r)
  \/ deposit_to_cash("s1")
  \/ withdraw_from_cash("s1")
  \/ invest_in_mmf("s1")
  \/ redeem_from_mmf("s1")
  \/ spend_from_mmf("s1")
  \/ create_cd("s1")
  \/ buy_stock("s1")
  \/ sell_stock("s1")
  \/ spend_from_stock("s1")
  \/ PriceFeed([t \in {"AAPL"} |-> Price(800)])

SpecAmounts == Init /\ [][NextAmounts]_vars

\* ---- SpecFlow: one parent adds money and records spending through the
\* ---- confirmation flow; the client has two connections to send calls on
FlowRequests ==
  { Request("deposit_to_cash", "Melody", "Aiden", Dollars(100), "-", 0, 0),
    Request("withdraw_from_cash", "Melody", "Aiden", Dollars(80), "-", 0, 0),
    Request("withdraw_from_cash", "Melody", "Aiden", Dollars(20), "-", 0, 0) }

NextFlow ==
  \/ \E r \in FlowRequests : requestConfirmation(r)
  \/ \E q \in Sessions : confirm(q, MaxTxns)
  \/ confirmSettled
  \/ cancel
  \/ reset
  \/ \E q \in Sessions : deposit_to_cash(q)
  \/ \E q \in Sessions : withdraw_from_cash(q)

SpecFlow == Init /\ [][NextFlow]_vars

\* ---- SpecLate: one session creates a three-month lot and matures or breaks
\* ---- it before, on and well after its maturity date
LateRequests ==
  { Request("deposit_to_cash", "Melody", "Aiden", Dollars(100), "-", 0, 0),
    Request("create_cd", "Melody", "Aiden", Dollars(100), "-", 3, 0) }
  \cup { Request(op, "Melody", "-", 0, "-", 0, 1) : op \in LotOps }

NextLate ==
  \/ \E r \in LateRequests : Call("s1", r)
  \/ deposit_to_cash("s1")
  \/ create_cd("s1")
  \/ mature_cd("s1")
  \/ break_cd("s1")
  \/ \E d \in {30, 90, 120, 121, 150} : Tick(d)

SpecLate == Init /\ [][NextLate]_vars

\* ---- a kid's card reads the portfolio while one session funds the kid and
\* ---- moves money between the buckets
MaxSummaryTxns == 6
SummaryRequests ==
  { Request("deposit_to_cash", "Melody", "Aiden", Dollars(100), "-", 0, 0),
    Request("invest_in_mmf", "Melody", "Aiden", Dollars(40), "-", 0, 0),
    Request("create_cd", "Melody", "Aiden", Dollars(30), "-", 3, 0),
    Request("buy_stock", "Melody", "Aiden", Dollars(20), "AAPL", 0, 0) }

NextSummary ==
  \/ \E r \in SummaryRequests : CallWithin("s1", r, MaxSummaryTxns)
  \/ deposit_to_cash("s1")
  \/ invest_in_mmf("s1")
  \/ create_cd("s1")
  \/ buy_stock("s1")
  \/ PriceFeed([t \in {"AAPL"} |-> Price(800)])
  \/ usePortfolio("Aiden")
  \/ \E q \in {"cash", "mmf", "cdLots", "positions", "prices"} : settle(q)

SpecSummary == Init /\ [][NextSummary]_vars

\* ---- one session empties the interest fund and funds it again while the
\* ---- days pass
MaxRefundTxns == 9
RefundRequests ==
  { Request("deposit_to_cash", "Melody", "Aiden", Dollars(100), "-", 0, 0),
    Request("invest_in_mmf", "Melody", "Aiden", Dollars(100), "-", 0, 0),
    Request("redeem_from_mmf", "Melody", "Aiden", Dollars(100), "-", 0, 0),
    Request("redeem_from_mmf", "Melody", "Aiden", Cents(10035), "-", 0, 0),
    Request("accrue_mmf_interest", "Melody", "Aiden", 0, "-", 0, 0) }

NextRefund ==
  \/ \E r \in RefundRequests : CallWithin("s1", r, MaxRefundTxns)
  \/ deposit_to_cash("s1")
  \/ invest_in_mmf("s1")
  \/ redeem_from_mmf("s1")
  \/ accrue_mmf_interest("s1")
  \/ \E d \in {30, 73} : Tick(d)

SpecRefund == Init /\ [][NextRefund]_vars

\* ---------------------------------------------------------- properties
\* the signed sum of kid k's entry amounts in bucket b over the first n rows
\* of ledger t
RECURSIVE SumUpTo(_, _, _, _)
SumUpTo(t, k, b, n) ==
  IF n = 0 THEN 0
  ELSE SumUpTo(t, k, b, n - 1)
         + (IF t[n].kid = k /\ t[n].bucket = b THEN t[n].amount ELSE 0)

LedgerSum(t, k, b) == SumUpTo(t, k, b, Len(t))

\* the last n rows of ledger t
LastRows(t, n) == SubSeq(t, Len(t) - n + 1, Len(t))

\* session p takes a step of the call it is running
Steps(p) == pc[p] # "idle" /\ pc'[p] # pc[p]

\* C1: under every interleaving of two sessions running the balance-decreasing
\* RPCs on one kid, each call's read, test and insert run under the kid's
\* lock: no two calls on a kid are between test and insert together, and
\* every kid's cash and mmf balances are >= 0 in every reachable state, so two
\* withdrawals that fit the balance singly but not together never both succeed.
C1_NoOverdraft ==
  /\ \A k \in Kids : LedgerSum(transactions, k, "cash") >= 0
                     /\ LedgerSum(transactions, k, "mmf") >= 0
  /\ \A p, q \in Sessions :
       (p # q /\ pc[p] = "write" /\ pc[q] = "write") => req[p].kid # req[q].kid

\* a withdrawal has just committed while another session's withdrawal, which
\* fitted the balance before that commit and no longer fits, waits for the lock
C1_Witness ==
  \E q \in Sessions :
    /\ pc[q] = "wait" /\ req[q].op = "withdraw_from_cash"
    /\ ret = "ok" /\ transactions # << >>
    /\ LET last == transactions[Len(transactions)]
           now == SqlBalance(req[q].kid, "cash")
       IN /\ last.type = "withdraw" /\ last.kid = req[q].kid
          /\ req[q].amount > now * 10
          /\ req[q].amount <= (now - last.amount) * 10

\* the payout rows of lot id: redeem/cash rows whose metadata carry its cd_lot_id
PayoutRows(id) ==
  {i \in 1..Len(transactions) :
     /\ transactions[i].type = "redeem" /\ transactions[i].bucket = "cash"
     /\ transactions[i].metadata # NoMetadata
     /\ "cd_lot_id" \in DOMAIN transactions[i].metadata
     /\ transactions[i].metadata.cd_lot_id = id}

\* C2: under every interleaving of mature_cd and break_cd calls on one lot,
\* overlapping calls included, the lot leaves the active state once: the
\* ledger never holds more than one payout row for a lot.
C2_OnePayoutPerLot ==
  \A id \in 1..Len(cd_lots) : Cardinality(PayoutRows(id)) <= 1

\* every exception an RPC call can end with
Failures == {"Unauthorized", "InvalidAmount", "InvalidTerm", "InvalidTicker",
             "NotFound", "InvalidState", "NotYetMatured", "InsufficientBalance",
             "NoPriceData", "PositionLimitReached", "NoShares",
             "InsufficientShares", "ConstraintViolation"}

\* C3: a call that fails, for whatever reason, appends no ledger row and
\* leaves every cd_lots and stock_positions row as it was.
C3_FailureWritesNothing ==
  [][ ret' \in Failures =>
        /\ transactions' = transactions
        /\ cd_lots' = cd_lots
        /\ stock_positions' = stock_positions ]_vars

\* deposits of 50 and 30, then a withdrawal of 100 has just failed: two rows,
\* cash balance 80.00
C3_Witness ==
  /\ ret = "InsufficientBalance"
  /\ Len(transactions) = 2
  /\ transactions[1].type = "deposit" /\ transactions[1].amount = 5000
  /\ transactions[2].type = "deposit" /\ transactions[2].amount = 3000
  /\ SqlBalance("Aiden", "cash") = 8000

\* C4: every UPDATE or DELETE of a ledger row is rejected: each step leaves
\* every existing row in place and unchanged, so the ledger only grows.
C4_AppendOnly ==
  [][ /\ Len(transactions') >= Len(transactions)
      /\ \A i \in 1..Len(transactions) : transactions'[i] = transactions[i] ]_vars

\* an UPDATE or DELETE against a ledger of two or more rows was just rejected
C4_Witness == ret = "AppendOnly" /\ Len(transactions) >= 2

RECURSIVE ActivePrincipalUpTo(_, _)
ActivePrincipalUpTo(k, n) ==
  IF n = 0 THEN 0
  ELSE ActivePrincipalUpTo(k, n - 1)
         + (IF cd_lots[n].kid = k /\ cd_lots[n].status = "active"
            THEN cd_lots[n].principal ELSE 0)

C7_StatusTerminal ==
  [][ /\ \A id \in 1..Len(cd_lots) :
           cd_lots'[id].status # cd_lots[id].status
             => /\ cd_lots[id].status = "active"
                /\ cd_lots'[id].status \in {"matured", "broken"}
      /\ \A p \in Sessions :
           (Steps(p) /\ req[p].op \in LotOps /\ pc[p] = "write"
              /\ cd_lots[req[p].lot].status # "active")
             => ret' # "ok" ]_vars

\* C8: a withdraw_from_cash call with a valid amount raises
\* InsufficientBalance exactly when the amount exceeds the cash balance;
\* otherwise it succeeds and appends one withdraw/cash row of -amount, and a
\* withdrawal of the whole balance leaves the balance at 0.
C8_WithdrawUpToBalance ==
  [][ \A p \in Sessions :
        (Steps(p) /\ req[p].op = "withdraw_from_cash") =>
          LET r == req[p]
              bal == LedgerSum(transactions, r.kid, "cash")
          IN /\ (pc[p] = "wait") =>
                  /\ (ret' = "InsufficientBalance") <=> (r.amount > bal * 10)
                  /\ (r.amount <= bal * 10) => (pc'[p] = "write")
                  /\ transactions' = transactions
             /\ (pc[p] = "write") =>
                  /\ ret' = "ok"
                  /\ transactions' = Append(transactions,
                        [kid |-> r.kid, type |-> "withdraw", bucket |-> "cash",
                         amount |-> -(r.amount \div 10), created_by |-> r.caller,
                         created_at |-> today, metadata |-> NoMetadata])
                  /\ (r.amount = bal * 10)
                       => LedgerSum(transactions', r.kid, "cash") = 0 ]_vars

\* a withdrawal of the whole cash balance has just succeeded
C8_Witness ==
  /\ ret = "ok" /\ Len(transactions) >= 2
  /\ LET last == transactions[Len(transactions)]
     IN /\ last.type = "withdraw" /\ last.metadata = NoMetadata
        /\ last.amount < 0
        /\ SqlBalance(last.kid, "cash") = 0

\* C9: a deposit_to_cash call with a valid amount by an authorised caller
\* always succeeds, whatever the balances: it tests no balance, appends one
\* deposit/cash row of +amount and raises the cash balance by that amount.
C9_DepositAlwaysSucceeds ==
  [][ /\ \A r \in AllRequests :
           (r.op = "deposit_to_cash" /\ ~ Unauthorized(r.caller, r.kid)
              /\ r.amount > 0 /\ r.amount <= MaxAmountMills /\ r.amount % 10 = 0)
             => PreLock(r) = "ok"
      /\ \A p \in Sessions :
           (Steps(p) /\ req[p].op = "deposit_to_cash") =>
             LET r == req[p] IN
             /\ (pc[p] = "wait") => (pc'[p] = "write" /\ transactions' = transactions)
             /\ (pc[p] = "write") =>
                  /\ ret' = "ok"
                  /\ transactions' = Append(transactions,
                        [kid |-> r.kid, type |-> "deposit", bucket |-> "cash",
                         amount |-> r.amount \div 10, created_by |-> r.caller,
                         created_at |-> today, metadata |-> NoMetadata])
                  /\ LedgerSum(transactions', r.kid, "cash")
                       = LedgerSum(transactions, r.kid, "cash") + r.amount \div 10
    ]_vars

\* a deposit has just succeeded for a kid whose cash balance already stood at
\* the largest amount a single row may hold
C9_Witness ==
  /\ ret = "ok" /\ Len(transactions) >= 2
  /\ LET last == transactions[Len(transactions)]
     IN /\ last.type = "deposit" /\ last.amount > 0
        /\ SqlBalance(last.kid, "cash") - last.amount >= MaxAmountCents

\* C10: invest_in_mmf and redeem_from_mmf raise InsufficientBalance exactly
\* when the amount exceeds the source bucket's balance; otherwise they append
\* exactly two rows, -amount in the source bucket and +amount in the
\* destination bucket, so cash balance + mmf balance is unchanged.
C10_TransferTwoRows ==
  [][ \A p \in Sessions :
        (Steps(p) /\ req[p].op \in {"invest_in_mmf", "redeem_from_mmf"}) =>
          LET r == req[p]
              invest == r.op = "invest_in_mmf"
              type == IF invest THEN "invest" ELSE "redeem"
              src == IF invest THEN "cash" ELSE "mmf"
              dst == IF invest THEN "mmf" ELSE "cash"
              row(b, amt) == [kid |-> r.kid, type |-> type, bucket |-> b,
                              amount |-> amt, created_by |-> r.caller,
                              created_at |-> today, metadata |-> NoMetadata]
          IN /\ (pc[p] = "wait") =>
                  /\ (ret' = "InsufficientBalance")
                       <=> (r.amount > LedgerSum(transactions, r.kid, src) * 10)
                  /\ (ret' # "InsufficientBalance") => (pc'[p] = "write")
                  /\ transactions' = transactions
             /\ (pc[p] = "write") =>
                  /\ ret' = "ok"
                  /\ transactions' = transactions \o
                       << row(src, -(r.amount \div 10)), row(dst, r.amount \div 10) >>
                  /\ LedgerSum(transactions', r.kid, "cash")
                         + LedgerSum(transactions', r.kid, "mmf")
                       = LedgerSum(transactions, r.kid, "cash")
                         + LedgerSum(transactions, r.kid, "mmf") ]_vars

\* a redemption of the whole mmf balance has just succeeded
C10_Witness ==
  /\ ret = "ok" /\ Len(transactions) >= 2
  /\ LET rows == LastRows(transactions, 2)
     IN /\ rows[1].type = "redeem" /\ rows[1].bucket = "mmf" /\ rows[1].amount < 0
        /\ rows[2].type = "redeem" /\ rows[2].bucket = "cash"
        /\ rows[2].amount = -rows[1].amount
        /\ rows[1].metadata = NoMetadata /\ rows[2].metadata = NoMetadata
        /\ SqlBalance(rows[1].kid, "mmf") = 0

\* C11: a successful spend_from_mmf or spend_from_stock appends exactly three
\* rows in one batch, -amount in the source bucket, +amount in cash and
\* -amount in cash; the cash balance after it equals the cash balance before
\* it and the source bucket's sum is lower by exactly the amount.
C11_SpendThreeRows ==
  [][ \A p \in Sessions :
        (Steps(p) /\ req[p].op \in {"spend_from_mmf", "spend_from_stock"}
           /\ pc[p] = "write" /\ ret' = "ok") =>
          LET r == req[p]
              a == r.amount \div 10
              src == IF r.op = "spend_from_mmf" THEN "mmf" ELSE "stock"
              new == LastRows(transactions', 3)
          IN /\ Len(transactions') = Len(transactions) + 3
             /\ SubSeq(transactions', 1, Len(transactions)) = transactions
             /\ \A i \in 1..3 : new[i].kid = r.kid
             /\ new[1].bucket = src /\ new[1].amount = -a
             /\ new[2].bucket = "cash" /\ new[2].amount = a
             /\ new[3].bucket = "cash" /\ new[3].amount = -a
             /\ LedgerSum(transactions', r.kid, "cash")
                  = LedgerSum(transactions, r.kid, "cash")
             /\ LedgerSum(transactions', r.kid, src)
                  = LedgerSum(transactions, r.kid, src) - a ]_vars

\* a spend funded from a stock position has just succeeded
C11_Witness ==
  /\ ret = "ok" /\ Len(transactions) >= 6
  /\ LET new == LastRows(transactions, 3)
     IN /\ new[1].type = "sell" /\ new[1].bucket = "stock" /\ new[1].amount < 0
        /\ new[2].type = "sell" /\ new[2].bucket = "cash"
        /\ new[3].type = "withdraw" /\ new[3].bucket = "cash"
        /\ new[3].amount = new[1].amount /\ new[2].amount = -new[1].amount

\* ledger t holds an interest entry of kid k dated day d
CreditedOn(t, k, d) ==
  \E i \in 1..Len(t) : /\ t[i].kid = k /\ t[i].type = "interest"
                       /\ t[i].bucket = "mmf" /\ t[i].created_at = d

\* C12: once a kid has an interest entry dated today, every accrue_mmf_interest
\* call for that kid that finishes today, whether it started after the entry
\* was written or was waiting while it was written, is a no-op: it returns
\* without error, the ledger is left as it was, and so no kid ever has two
\* interest entries dated the same day.
C12_AccrualOncePerDay ==
  [][ /\ \A p \in Sessions :
           (/\ Steps(p) /\ pc'[p] = "idle"
            /\ req[p].op = "accrue_mmf_interest"
            /\ CreditedOn(transactions, req[p].kid, today))
             => ret' = "noop" /\ transactions' = transactions
      /\ \A i, j \in 1..Len(transactions') :
           (/\ i < j
            /\ transactions'[i].type = "interest" /\ transactions'[j].type = "interest"
            /\ transactions'[i].kid = transactions'[j].kid)
             => transactions'[i].created_at # transactions'[j].created_at ]_vars

\* an accrual call has just returned as a no-op on a day that already has the
\* kid's interest entry
C12_Witness ==
  /\ ret = "noop" /\ today > 0
  /\ CreditedOn(transactions, "Aiden", today)

\* C13: the interest entry accrue_mmf_interest appends has amount
\* round(currentMmfBalance x (mmf_apy / 365) x daysElapsed, 2), halves rounded
\* away from zero, with daysElapsed = today - lastAccrualDate and mmf_apy the
\* setting read by the call.
C13_InterestFormula ==
  [][ \A p \in Sessions :
        (/\ Steps(p) /\ pc[p] = "write" /\ ret' = "ok"
         /\ req[p].op = "accrue_mmf_interest")
          => LET k == req[p].kid
                 new == transactions'[Len(transactions')]
             IN /\ Len(transactions') = Len(transactions) + 1
                /\ new.type = "interest" /\ new.bucket = "mmf" /\ new.kid = k
                /\ new.amount =
                     RoundMulDiv(LedgerSum(transactions, k, "mmf"),
                                 settings.mmf_apy * (today - LastAccrualDate(k)),
                                 3650000) ]_vars

\* the dates of kid k's entries of the given type in the mmf bucket of ledger t
MmfDates(t, k, type) ==
  { t[i].created_at : i \in { j \in 1..Len(t) :
      t[j].kid = k /\ t[j].type = type /\ t[j].bucket = "mmf" } }

\* the day the next accrual of kid k counts from: the latest interest date,
\* or without one the earliest invest date
AccrualStart(t, k) ==
  LET credited == MmfDates(t, k, "interest")
      invested == MmfDates(t, k, "invest")
  IN IF credited # {}
     THEN CHOOSE d \in credited : \A e \in credited : e <= d
     ELSE CHOOSE d \in invested : \A e \in invested : d <= e

\* C14: the days an accrual pays for are counted from the date of the kid's
\* most recent interest entry in the mmf bucket, and from the date of the kid's
\* first invest entry into the mmf bucket only when there is no interest entry.
C14_LastAccrualDate ==
  [][ \A p \in Sessions :
        (/\ Steps(p) /\ pc[p] = "write" /\ ret' = "ok"
         /\ req[p].op = "accrue_mmf_interest")
          => LET k == req[p].kid
                 new == transactions'[Len(transactions')]
             IN /\ MmfDates(transactions, k, "interest")
                     \cup MmfDates(transactions, k, "invest") # {}
                /\ new.type = "interest"
                /\ new.metadata.days_accrued
                     = today - AccrualStart(transactions, k) ]_vars

\* a second accrual has just been credited: it covers the 43 days since the
\* interest entry of day 30, not the 73 days since the first invest
C14_Witness ==
  /\ ret = "ok" /\ today = 73 /\ Len(transactions) >= 5
  /\ transactions[Len(transactions)].type = "interest"
  /\ transactions[Len(transactions)].metadata.days_accrued = 43
  /\ 30 \in MmfDates(transactions, "Aiden", "interest")
  /\ 0 \in MmfDates(transactions, "Aiden", "invest")

\* C15: an accrue_mmf_interest call whose interest rounds to 0.00 returns
\* without error and appends nothing, and every interest entry of the ledger
\* has an amount above zero.
C15_NoZeroInterest ==
  [][ /\ \A p \in Sessions :
           (/\ Steps(p) /\ req[p].op = "accrue_mmf_interest"
            /\ LedgerSum(transactions, req[p].kid, "mmf") > 0
            /\ MmfDates(transactions, req[p].kid, "invest") # {}
            /\ RoundMulDiv(LedgerSum(transactions, req[p].kid, "mmf"),
                  settings.mmf_apy * (today - AccrualStart(transactions, req[p].kid)),
                  3650000) = 0)
             => /\ pc'[p] = "idle" /\ ret' = "noop"
                /\ transactions' = transactions
      /\ \A i \in 1..Len(transactions') :
           transactions'[i].type = "interest" => transactions'[i].amount > 0 ]_vars

\* 1.00 has been in the fund for 30 days at 4.2%: 0.0035 of interest rounds
\* to 0.00 and the call has returned without crediting anything
C15_Witness ==
  /\ ret = "noop" /\ today = 30 /\ settings.mmf_apy = 420
  /\ LedgerSum(transactions, "Aiden", "mmf") = 100
  /\ MmfDates(transactions, "Aiden", "invest") = {0}
  /\ MmfDates(transactions, "Aiden", "interest") = {}

\* C16: mature_cd gets past its tests, and pays out, only for a lot whose
\* status is active and whose maturity date is today or earlier; a call
\* refused for the lot's status or date appends no entry and leaves the lots
\* as they were.
C16_MatureOnlyActiveAndDue ==
  [][ /\ \A p \in Sessions :
           (/\ pc'[p] # pc[p]
            /\ \/ pc'[p] = "wait" /\ req'[p].op = "mature_cd"
               \/ pc[p] = "write" /\ req[p].op = "mature_cd" /\ ret' = "ok")
             => LET id == IF pc[p] = "idle" THEN req'[p].lot ELSE req[p].lot
                IN /\ cd_lots[id].status = "active"
                   /\ cd_lots[id].maturity_date <= today
      /\ ret' \in {"InvalidState", "NotYetMatured"}
           => transactions' = transactions /\ cd_lots' = cd_lots ]_vars

\* C17: a successful mature_cd appends a single cash entry of
\* principal + round(principal x rate x actualDaysHeld / 365, 2), where
\* actualDaysHeld counts the days from the lot's start date to the day of the
\* call and rate is the rate stored on the lot.
C17_MatureActualDays ==
  [][ \A p \in Sessions :
        (/\ Steps(p) /\ pc[p] = "write" /\ ret' = "ok"
         /\ req[p].op = "mature_cd")
          => LET lot == cd_lots[req[p].lot]
                 new == transactions'[Len(transactions')]
             IN /\ Len(transactions') = Len(transactions) + 1
                /\ new.kid = lot.kid /\ new.bucket = "cash"
                /\ new.amount = lot.principal +
                     RoundMulDiv(lot.principal,
                                 lot.apy * (today - lot.start_date), 3650000) ]_vars

\* C18: a successful break_cd on a lot held d days appends one cash entry of
\* principal + max(interest - penalty, 0) with
\* interest = round(principal x rate x d / 365, 2) and
\* penalty = round(principal x rate x min(d, 30) / 365, 2), which is never
\* less than the principal.
C18_BreakNetProceeds ==
  [][ \A p \in Sessions :
        (/\ Steps(p) /\ pc[p] = "write" /\ ret' = "ok"
         /\ req[p].op = "break_cd")
          => LET lot == cd_lots[req[p].lot]
                 d == today - lot.start_date
                 interest == RoundMulDiv(lot.principal, lot.apy * d, 3650000)
                 penalty == RoundMulDiv(lot.principal,
                              lot.apy * (IF d < 30 THEN d ELSE 30), 3650000)
                 new == transactions'[Len(transactions')]
             IN /\ d >= 0
                /\ Len(transactions') = Len(transactions) + 1
                /\ new.kid = lot.kid /\ new.bucket = "cash"
                /\ new.amount = lot.principal
                     + (IF interest > penalty THEN interest - penalty ELSE 0)
                /\ new.amount >= lot.principal ]_vars

\* 100.00 at 4.8% has just been broken on day 45: 0.59 of interest less 0.39
\* of penalty, 100.20 returned
C18_Witness ==
  /\ ret = "ok" /\ today = 45 /\ Len(transactions) = 3 /\ Len(cd_lots) = 1
  /\ cd_lots[1].status = "broken" /\ cd_lots[1].start_date = 0
  /\ cd_lots[1].principal = 10000 /\ cd_lots[1].apy = 480
  /\ transactions[3].bucket = "cash" /\ transactions[3].amount = 10020

\* the calendar date of day number d: 1 January of year 0 is day 0
FirstOfMonth == <<0, 31, 59, 90, 120, 151, 181, 212, 243, 273, 304, 334>>
DaysInMonth == <<31, 28, 31, 30, 31, 30, 31, 31, 30, 31, 30, 31>>
CalendarOf(d) ==
  LET m == CHOOSE n \in 1..12 :
             /\ FirstOfMonth[n] <= d % 365
             /\ n = 12 \/ d % 365 < FirstOfMonth[n + 1]
  IN [year |-> d \div 365, month |-> m, day |-> (d % 365) - FirstOfMonth[m] + 1]

\* date b is date a moved on by the given number of calendar months (the
\* day of the month kept, or the month's last day when it is shorter)
MonthsLater(a, b, months) ==
  /\ (12 * CalendarOf(b).year + CalendarOf(b).month)
       - (12 * CalendarOf(a).year + CalendarOf(a).month) = months
  /\ CalendarOf(b).day =
       (IF CalendarOf(a).day < DaysInMonth[CalendarOf(b).month]
        THEN CalendarOf(a).day ELSE DaysInMonth[CalendarOf(b).month])

\* C19: create_cd succeeds only for a term of 3, 6 or 12 months and a cash
\* balance of at least the principal; it then appends exactly one cash entry of
\* -principal and exactly one lot: active, starting today, maturing the term
\* later, at the rate the setting of that term has now, so that cash falls by
\* the principal.  A refused create_cd leaves ledger and lots as they were.
C19_CreateCd ==
  [][ /\ \A p \in Sessions :
           (/\ Steps(p) /\ pc[p] = "write" /\ ret' = "ok"
            /\ req[p].op = "create_cd")
             => LET r == req[p]
                    principal == r.amount \div 10
                    entry == transactions'[Len(transactions')]
                    lot == cd_lots'[Len(cd_lots')]
                IN /\ r.term \in {3, 6, 12}
                   /\ LedgerSum(transactions, r.kid, "cash") >= principal
                   /\ Len(transactions') = Len(transactions) + 1
                   /\ SubSeq(transactions', 1, Len(transactions)) = transactions
                   /\ entry.kid = r.kid /\ entry.bucket = "cash"
                   /\ entry.amount = -principal
                   /\ LedgerSum(transactions', r.kid, "cash")
                        = LedgerSum(transactions, r.kid, "cash") - principal
                   /\ Len(cd_lots') = Len(cd_lots) + 1
                   /\ SubSeq(cd_lots', 1, Len(cd_lots)) = cd_lots
                   /\ lot.kid = r.kid /\ lot.principal = principal
                   /\ lot.status = "active" /\ lot.start_date = today
                   /\ lot.term_months = r.term
                   /\ MonthsLater(lot.start_date, lot.maturity_date, r.term)
                   /\ lot.apy = (CASE r.term = 3 -> settings.cd_3m_apy
                                   [] r.term = 6 -> settings.cd_6m_apy
                                   [] r.term = 12 -> settings.cd_12m_apy)
      /\ ret' \in {"InvalidTerm", "InsufficientBalance", "InvalidAmount",
                   "Unauthorized"}
           => transactions' = transactions /\ cd_lots' = cd_lots ]_vars

\* a six-month deposit has just been created on 15 February at the current
\* six-month rate: it matures on 15 August
C19_Witness ==
  /\ ret = "ok" /\ today = 45 /\ Len(cd_lots) = 1 /\ Len(transactions) >= 2
  /\ cd_lots[1].status = "active" /\ cd_lots[1].term_months = 6
  /\ cd_lots[1].start_date = 45 /\ cd_lots[1].maturity_date = 226
  /\ cd_lots[1].apy = settings.cd_6m_apy
  /\ transactions[Len(transactions)].type = "invest"
  /\ transactions[Len(transactions)].amount = -cd_lots[1].principal

\* C20: no step changes the principal, rate, start date or maturity date of an
\* existing lot or removes a lot; mature_cd and break_cd change nothing of a
\* lot but its status; and the interest of a payout is computed at the rate
\* stored on the lot, whatever the rate settings are at the time.
C20_LotImmutable ==
  [][ /\ Len(cd_lots') >= Len(cd_lots)
      /\ \A i \in 1..Len(cd_lots) :
           [cd_lots'[i] EXCEPT !.status = cd_lots[i].status] = cd_lots[i]
      /\ \A p \in Sessions :
           (/\ Steps(p) /\ pc[p] = "write" /\ ret' = "ok"
            /\ req[p].op \in {"mature_cd", "break_cd"})
             => LET lot == cd_lots[req[p].lot]
                    paid == transactions'[Len(transactions')].metadata
                    interest == IF req[p].op = "mature_cd" THEN paid.interest
                                ELSE paid.interest_earned
                IN /\ Len(cd_lots') = Len(cd_lots)
                   /\ paid.apy = lot.apy
                   /\ interest = RoundMulDiv(lot.principal,
                                    lot.apy * paid.days_held, 3650000) ]_vars

\* a lot created at 4.8% has just been matured after the three-month rate
\* was raised to 6%: it still carries 4.8% and paid 1.18, not 1.48
C20_Witness ==
  /\ ret = "ok" /\ settings.cd_3m_apy = 600 /\ Len(cd_lots) = 1
  /\ cd_lots[1].status = "matured" /\ cd_lots[1].apy = 480
  /\ cd_lots[1].term_months = 3 /\ cd_lots[1].principal = 10000
  /\ transactions[Len(transactions)].type = "redeem"
  /\ transactions[Len(transactions)].amount = 10118

\* the position rows of kid k in table pos
PositionRows(pos, k) == {i \in 1..Len(pos) : pos[i].kid = k}

\* kid k holds a position row for ticker t in table pos
Holds(pos, k, t) == \E i \in 1..Len(pos) : pos[i].kid = k /\ pos[i].ticker = t

\* C21: a buy_stock of a symbol the kid does not hold, made while the kid
\* holds as many positions as stock_position_limit allows, fails with
\* PositionLimitReached and changes nothing; and as long as the setting is not
\* changed, a kid whose position rows are within the limit stays within it,
\* also when buys of different new symbols overlap.
C21_PositionLimit ==
  [][ /\ \A p \in Sessions :
           (/\ Steps(p) /\ req[p].op = "buy_stock"
            /\ stock_prices[req[p].ticker] > 0
            /\ ~ Holds(stock_positions, req[p].kid, req[p].ticker)
            /\ Cardinality(PositionRows(stock_positions, req[p].kid))
                 >= settings.stock_position_limit)
             => /\ ret' = "PositionLimitReached"
                /\ transactions' = transactions
                /\ stock_positions' = stock_positions
      /\ \A k \in Kids :
           (/\ settings' = settings
            /\ Cardinality(PositionRows(stock_positions, k))
                 <= settings.stock_position_limit)
             => Cardinality(PositionRows(stock_positions', k))
                  <= settings.stock_position_limit ]_vars

\* with a limit of one and one position held, a buy of the other symbol has
\* just been refused
C21_Witness ==
  /\ ret = "PositionLimitReached" /\ settings.stock_position_limit = 1
  /\ Cardinality(PositionRows(stock_positions, "Aiden")) = 1

\* C26: no table state holds two position rows for one (kid, symbol); a buy of
\* a symbol the kid already holds succeeds by adding to the existing row and
\* adds no row, also when two buys of one new symbol overlap.
C26_OneRowPerSymbol ==
  [][ /\ \A i, j \in 1..Len(stock_positions') :
           (stock_positions'[i].kid = stock_positions'[j].kid
              /\ stock_positions'[i].ticker = stock_positions'[j].ticker) => i = j
      /\ \A p \in Sessions :
           (/\ Steps(p) /\ pc[p] = "write" /\ req[p].op = "buy_stock"
            /\ Holds(stock_positions, req[p].kid, req[p].ticker))
             => LET i == CHOOSE n \in 1..Len(stock_positions) :
                           /\ stock_positions[n].kid = req[p].kid
                           /\ stock_positions[n].ticker = req[p].ticker
                IN /\ ret' = "ok"
                   /\ Len(stock_positions') = Len(stock_positions)
                   /\ stock_positions'[i].shares > stock_positions[i].shares
                   /\ stock_positions'[i].cost_basis
                        = stock_positions[i].cost_basis + req[p].amount \div 10
                   /\ \A n \in 1..Len(stock_positions) :
                        n # i => stock_positions'[n] = stock_positions[n] ]_vars

\* two buys of 50 of one symbol have been made and the kid holds a single
\* row of it with a cost basis of 100
C26_Witness ==
  /\ ret = "ok" /\ Len(transactions) = 5
  /\ \E i \in 1..Len(stock_positions) :
       /\ stock_positions[i].kid = "Aiden" /\ stock_positions[i].ticker = "VTI"
       /\ stock_positions[i].cost_basis = 10000
       /\ stock_positions[i].shares = 12500000

\* kid k's row for ticker t in table pos, NoPosition when there is none
PositionIn(pos, k, t) ==
  IF PositionIndex(pos, k, t) = 0 THEN NoPosition ELSE pos[PositionIndex(pos, k, t)]

\* C22: a successful buy_stock of an amount at the latest price p appends a
\* cash entry of minus the amount and a stock entry of plus the amount, and
\* leaves the position with the previous shares plus round(amount / p, 8) and
\* the previous cost basis plus the amount (both 0 when there was no row);
\* 200 at 800 adds 0.25 shares, 100 at 900 adds 0.11111111.
C22_BuyUpdatesPosition ==
  [][ \A p \in Sessions :
        (/\ Steps(p) /\ pc[p] = "write" /\ ret' = "ok"
         /\ req[p].op = "buy_stock")
          => LET r == req[p]
                 v_price == stock_prices[r.ticker]
                 old == PositionIn(stock_positions, r.kid, r.ticker)
                 new == PositionIn(stock_positions', r.kid, r.ticker)
                 n == Len(transactions)
             IN /\ Len(transactions') = n + 2
                /\ SubSeq(transactions', 1, n) = transactions
                /\ transactions'[n + 1].kid = r.kid
                /\ transactions'[n + 1].bucket = "cash"
                /\ transactions'[n + 1].amount = - ToCents(r.amount)
                /\ transactions'[n + 2].kid = r.kid
                /\ transactions'[n + 2].bucket = "stock"
                /\ transactions'[n + 2].amount = ToCents(r.amount)
                /\ new.kid = r.kid /\ new.ticker = r.ticker
                /\ new.shares = old.shares + SharesFor(r.amount, v_price)
                /\ new.cost_basis = old.cost_basis + ToCents(r.amount)
                /\ (r.amount = Dollars(200) /\ v_price = Price(800))
                     => new.shares - old.shares = 25000000
                /\ (r.amount = Dollars(100) /\ v_price = Price(900))
                     => new.shares - old.shares = 11111111 ]_vars

\* 200 bought at 800 and 100 more at 900: 0.36111111 shares, cost basis 300
C22_Witness ==
  /\ ret = "ok" /\ Len(transactions) = 5
  /\ PositionIn(stock_positions, "Aiden", "AAPL").shares = 36111111
  /\ PositionIn(stock_positions, "Aiden", "AAPL").cost_basis = 30000

\* C23: a sell_stock that sells s shares, fewer than the S held with cost
\* basis C, records realized gain = proceeds - round((C / S) x s, 2) and leaves
\* the position with S - s shares and cost basis C - round((C / S) x s, 2),
\* which is >= 0 (round to the nearest cent, a half cent up).
C23_PartialSell ==
  [][ \A p \in Sessions :
        (/\ Steps(p) /\ pc[p] = "write" /\ ret' = "ok"
         /\ req[p].op = "sell_stock"
         /\ loc[p].v_shares < PositionIn(stock_positions, req[p].kid, req[p].ticker).shares)
          => LET r == req[p]
                 old == PositionIn(stock_positions, r.kid, r.ticker)
                 new == PositionIn(stock_positions', r.kid, r.ticker)
                 sold == transactions'[Len(transactions) + 1]
                 cost == RoundMulDiv(old.cost_basis, loc[p].v_shares, old.shares)
             IN /\ sold.bucket = "cash"
                /\ sold.metadata.realized_gain_loss = sold.amount - cost
                /\ new.shares = old.shares - loc[p].v_shares
                /\ new.cost_basis = old.cost_basis - cost
                /\ new.cost_basis >= 0 ]_vars

\* C24: a sell_stock with a positive amount, or a spend_from_stock, whose
\* round(amount / latest price, 8) exceeds the shares the kid holds of the
\* symbol fails and changes nothing: with InsufficientShares when shares are
\* held, with NoShares when none are; and no position row ever has a
\* negative share count.
C24_InsufficientShares ==
  [][ /\ \A p \in Sessions :
           (/\ Steps(p) /\ req[p].op \in {"sell_stock", "spend_from_stock"}
            /\ req[p].amount > 0
            /\ stock_prices[req[p].ticker] > 0
            /\ SharesFor(req[p].amount, stock_prices[req[p].ticker])
                 > PositionIn(stock_positions, req[p].kid, req[p].ticker).shares)
             => /\ ret' = (IF Holds(stock_positions, req[p].kid, req[p].ticker)
                           THEN "InsufficientShares" ELSE "NoShares")
                /\ transactions' = transactions
                /\ stock_positions' = stock_positions
      /\ \A i \in 1..Len(stock_positions') : stock_positions'[i].shares >= 0 ]_vars

\* 400 asked of a holding of 0.25 shares worth 225: refused, the row is intact
C24_Witness ==
  /\ ret = "InsufficientShares" /\ stock_prices["AAPL"] = Price(900)
  /\ PositionIn(stock_positions, "Aiden", "AAPL").shares = 25000000

TaggedRows(t, k) ==
  {i \in 1..Len(t) : /\ t[i].kid = k /\ t[i].metadata # NoMetadata
                     /\ "source" \in DOMAIN t[i].metadata
                     /\ t[i].metadata.source = "hanzi_dojo"}

\* the points total recorded in the kid's most recent tagged row, 0 without one
RecordedTotal(t, k) ==
  IF TaggedRows(t, k) = {} THEN 0
  ELSE t[CHOOSE i \in TaggedRows(t, k) :
           \A j \in TaggedRows(t, k) : j <= i].metadata.points_total

\* C27: no entry is ever appended for a Hanzi Dojo points total that is lower
\* than, or equal to, the total recorded in the kid's most recent tagged entry.
C27_NoRegressionRecorded ==
  [][ \A k \in Kids :
        TaggedRows(transactions', k) # TaggedRows(transactions, k)
          => RecordedTotal(transactions', k) > RecordedTotal(transactions, k) ]_vars

\* C28: whenever the lastSnapshot query answers, the previous total the page
\* goes on to use is the total recorded in the kid's most recent tagged entry,
\* whatever was appended after it, and it is null (counted as 0) only when the
\* kid has no tagged entry.
C28_HighWaterMark ==
  [][ \A p \in Sessions :
        (page'[p] # page[p] /\ page'[p].phase = "form")
          => /\ (page'[p].lastSnapshot = NoSnapshot)
                  = (TaggedRows(transactions, page'[p].kidId) = {})
             /\ page'[p].lastSnapshot # NoSnapshot
                  => page'[p].lastSnapshot
                       = RecordedTotal(transactions, page'[p].kidId) ]_vars

\* the kid an RPC in progress works on: p_kid_id, or the kid of the lot fetched
TargetKid(p) == IF req[p].op \in LotOps THEN loc[p].v_lot.kid ELSE req[p].kid

\* everything the tables hold about kid k: ledger rows in order, lots by id,
\* positions
KidState(t, lots, pos, k) ==
  [rows |-> SelectSeq(t, LAMBDA x : x.kid = k),
   lots |-> [i \in {j \in 1..Len(lots) : lots[j].kid = k} |-> lots[i]],
   pos  |-> {pos[i] : i \in {j \in 1..Len(pos) : pos[j].kid = k}}]

\* C29: a step of an operation on kid A, successful or failed, leaves the
\* ledger rows, lots and positions (and so the balances) of every other kid
\* as they were, whatever the other session is doing; a kid's rows, lots and
\* positions change only in the write step of an operation on that kid.
C29_KidsIndependent ==
  [][ /\ \A p \in Sessions, B \in Kids :
           (Steps(p) /\ B # TargetKid(p))
             => KidState(transactions', cd_lots', stock_positions', B)
                  = KidState(transactions, cd_lots, stock_positions, B)
      /\ \A B \in Kids :
           (KidState(transactions', cd_lots', stock_positions', B)
              # KidState(transactions, cd_lots, stock_positions, B))
             => \E p \in Sessions :
                  pc[p] = "write" /\ pc'[p] = "idle" /\ TargetKid(p) = B ]_vars

\* a buy for Aiden has just been committed while a call on QA-Alice, who
\* already has a row, holds her lock
C29_Witness ==
  /\ ret = "ok" /\ pc["s1"] = "idle" /\ pc["s2"] = "write"
  /\ req["s2"].kid = "QA-Alice" /\ lock["QA-Alice"] = "s2"
  /\ \E i \in 1..Len(stock_positions) : stock_positions[i].kid = "Aiden"
  /\ \E i \in 1..Len(transactions) : transactions[i].kid = "QA-Alice"

\* C30: a session holds at most one kid's lock, and holds it only between the
\* tests and the end of a call on that kid, so a session with no call in
\* progress holds none; and every call that has started comes to its end,
\* whatever the other session does on the same or another kid.
C30_LocksReleased ==
  /\ [](\A p \in Sessions : Cardinality({k \in Kids : lock[k] = p}) <= 1)
  /\ [](\A k \in Kids :
          lock[k] # NoSession
            => pc[lock[k]] = "write" /\ TargetKid(lock[k]) = k)
  /\ \A p \in Sessions : (pc[p] # "idle") ~> (pc[p] = "idle")

\* one session waits for the lock of the kid the other is writing to
C30_Witness ==
  /\ pc["s1"] = "wait" /\ pc["s2"] = "write"
  /\ req["s1"].kid = "Aiden" /\ lock["Aiden"] = "s2"

\* the kid a request is aimed at: p_kid_id, or the kid of the lot p_cd_lot_id
\* names in the table ("-" when there is no such lot)
RequestKid(r) ==
  IF r.op \notin LotOps THEN r.kid
  ELSE IF r.lot \in 1..Len(cd_lots) THEN cd_lots[r.lot].kid ELSE "-"

\* every call aimed at a kid outside the caller's household ends with one of
\* the errors errs and leaves the tables alone, and a step of a call changes
\* nothing of the kids outside its caller's household
ForeignCallFails(errs) ==
  /\ \A r \in AuthRequests :
       (/\ StartCall("s1", r, MaxTxns)
        /\ RequestKid(r) \in Kids
        /\ KidHousehold(RequestKid(r)) # AdminHousehold(r.caller))
         => /\ ret' \in errs
            /\ <<transactions, cd_lots, stock_positions>>' =
                 <<transactions, cd_lots, stock_positions>>
  /\ \A p \in Sessions, B \in Kids :
       (Steps(p) /\ KidHousehold(B) # AdminHousehold(req[p].caller))
         => KidState(transactions', cd_lots', stock_positions', B)
              = KidState(transactions, cd_lots, stock_positions, B)

\* C31: every mutating operation fails with Unauthorized and changes nothing
\* when the target kid (for mature_cd and break_cd, the kid of the lot) is
\* not of the caller's household, so no call of an administrator of one
\* household changes an entry, lot or position of a kid of another.
C31_ForeignCallUnauthorized == [][ForeignCallFails({"Unauthorized"})]_vars

\* the amount of request r is negative or zero (zero passing for sell_stock),
\* above the maximum, or finer than a cent
BadAmount(r) ==
  \/ r.amount < 0
  \/ r.amount = 0 /\ r.op # "sell_stock"
  \/ r.amount > MaxAmountDollars * 1000
  \/ r.amount % 10 # 0

\* C32: every RPC that takes an amount rejects an amount that is not
\* positive (zero passing only as sell_stock's sell-all value), above 100000
\* or finer than a cent: the call ends before the lock with an exception,
\* which is InvalidAmount when caller, ticker and term are in order, and no
\* row is written; an amount in range is never rejected as invalid.
C32_InvalidAmountRejected ==
  [][ \A r \in AmountRequests :
        StartCall("s1", r, MaxTxns) =>
          /\ BadAmount(r) =>
                /\ ret' \in Failures /\ pc'["s1"] = "idle"
                /\ <<transactions, cd_lots, stock_positions>>' =
                     <<transactions, cd_lots, stock_positions>>
          /\ (BadAmount(r) /\ r.caller = "Melody" /\ r.ticker \in {"-", "AAPL"}
                /\ r.term \in {0, 3})
               => ret' = "InvalidAmount"
          /\ ~ BadAmount(r) => ret' # "InvalidAmount" ]_vars

\* an amount has just been rejected for a kid who holds cash, fund money and
\* shares enough for any operation of 50.00
C32_Witness ==
  /\ ret = "InvalidAmount"
  /\ SqlBalance("Aiden", "cash") >= 5000
  /\ stock_positions # << >>

\* the (operation type, bucket) pairs of the rows of ledger t
PairsOf(t) == { <<t[i].type, t[i].bucket>> : i \in 1..Len(t) }

\* C33: every ledger row has an (operation type, bucket) pair of the table
\* (deposit, withdraw, dividend on cash; invest on cash or mmf; redeem on
\* cash, mmf or cd; interest on mmf; buy and sell on cash or stock), and the
\* rows the RPCs write have such pairs only: the single write an RPC's
\* INSERTs are refused for is the payout of a lot of the largest principal,
\* which the amount limit refuses, never the table.
C33_ValidTypeBucket ==
  [][ /\ PairsOf(transactions') \subseteq
           ({"deposit", "withdraw", "dividend"} \X {"cash"})
             \cup ({"invest"} \X {"cash", "mmf"})
             \cup ({"redeem"} \X {"cash", "mmf", "cd"})
             \cup ({"interest"} \X {"mmf"})
             \cup ({"buy", "sell"} \X {"cash", "stock"})
      /\ \A p \in Sessions :
           (pc[p] = "write" /\ pc'[p] = "idle" /\ ret' # "ok")
             => /\ req[p].op \in LotOps
                /\ loc[p].v_lot.principal = MaxAmountDollars * 100 ]_vars

\* a call has just added rows to a ledger that now holds rows of four or
\* more different (type, bucket) pairs
C33_Witness ==
  /\ ret = "ok"
  /\ Cardinality(PairsOf(transactions)) >= 4

\* the connections on which a call of the page is under way
InFlight == {q \in Sessions : pc[q] # "idle"}

\* C34: in the confirm-before-submit flow one confirmation sends the money
\* operation at most once.  A call is sent only by Confirm in the confirming
\* phase with no submission under way, and at most one is under way; while
\* one is, Confirm and Cancel are disabled and the flow changes only when it
\* settles: on failure it stays in confirming with the error shown, on
\* success it moves to success.  From idle a request moves to confirming; in
\* success nothing can be sent and only reset leaves it, for idle.
C34_ConfirmOnce ==
  [][ /\ Cardinality(InFlight') <= 1
      /\ InFlight' # {} => flow'.isSubmitting /\ flow'.phase = "confirming"
      /\ (transactions' # transactions) => flow.isSubmitting
      /\ (InFlight' \ InFlight # {})
           => /\ flow.phase = "confirming" /\ ~ flow.isSubmitting
              /\ flow'.isSubmitting /\ InFlight = {}
      /\ (flow.isSubmitting /\ flow' # flow)
           => /\ InFlight = {} /\ ~ flow'.isSubmitting
              /\ IF ret = "ok"
                 THEN flow'.phase = "success"
                 ELSE /\ flow'.phase = "confirming" /\ flow'.error = ret
                      /\ flow'.summary = flow.summary
      /\ (flow.phase = "idle" /\ flow' # flow)
           => /\ flow'.phase = "confirming" /\ ~ flow'.isSubmitting
              /\ pc' = pc /\ transactions' = transactions
      /\ (flow.phase = "success")
           => /\ flow' \in {flow, INITIAL_STATE}
              /\ pc' = pc /\ transactions' = transactions ]_vars

\* a second spending of 80.00 from a cash balance of 20.00 has just failed:
\* the confirmation card is still shown, with the error and both buttons
\* enabled again
C34_Witness ==
  /\ flow.phase = "confirming" /\ flow.error = "InsufficientBalance"
  /\ ~ flow.isSubmitting /\ flow.summary.op = "withdraw_from_cash"
  /\ InFlight = {}
  /\ SqlBalance("Aiden", "cash") = 2000

\* C35: every lot create_cd accepts can be paid out at maturity: a mature_cd
\* call on an active lot whose maturity date has come, the lot of the largest
\* principal create_cd allows (100000.00) included, succeeds, marks the lot
\* matured and credits principal + interest to cash.
C35_MatureSucceeds ==
  [][ \A p \in Sessions :
        (Steps(p) /\ pc[p] = "write" /\ req[p].op = "mature_cd")
          => LET lot == cd_lots[req[p].lot] IN
             /\ lot.status = "active" /\ lot.maturity_date <= today
             /\ ret' = "ok"
             /\ cd_lots'[req[p].lot].status = "matured"
             /\ Len(transactions') = Len(transactions) + 1
             /\ LedgerSum(transactions', lot.kid, "cash")
                  > LedgerSum(transactions, lot.kid, "cash") + lot.principal - 1 ]_vars

\* C36: for an active lot on a day at or after its maturity date, break_cd
\* credits to cash no more than mature_cd credits for that lot on that day
\* (the principal plus the interest mature_cd computes).
C36_BreakNotAboveMature ==
  [][ \A p \in Sessions :
        (Steps(p) /\ pc[p] = "write" /\ req[p].op = "break_cd" /\ ret' = "ok"
           /\ cd_lots[req[p].lot].maturity_date <= today)
          => LET lot == cd_lots[req[p].lot] IN
             LedgerSum(transactions', lot.kid, "cash")
                 - LedgerSum(transactions, lot.kid, "cash")
               <= lot.principal
                    + SimpleInterest(lot.principal, lot.apy,
                                     lot.maturity_date - lot.start_date) ]_vars

\* C37: whenever a kid holds no position, the kid's stock-bucket entries sum
\* to zero: the buy, sell and spend entries of a position that has been
\* closed cancel out, whatever the prices it was bought and sold at.
C37_ClosedPositionsCancel ==
  \A k \in Kids :
    PositionRows(stock_positions, k) = {}
      => LedgerSum(transactions, k, "stock") = 0

RECURSIVE RealizedUpTo(_, _, _)
\* the realized_gain_loss recorded on kid k's stock-bucket sell entries among
\* the first n rows of ledger t, summed
RealizedUpTo(t, k, n) ==
  IF n = 0 THEN 0
  ELSE RealizedUpTo(t, k, n - 1)
         + (IF t[n].kid = k /\ t[n].type = "sell" /\ t[n].bucket = "stock"
            THEN t[n].metadata.realized_gain_loss ELSE 0)

\* C37 as amended: whenever a kid holds no position, the kid's stock-bucket
\* entries sum to minus the realized gains and losses recorded on the kid's
\* sell entries: the buy entries carry what was paid and the sell entries
\* what was received, so closed positions cancel out up to their gain or loss.
C37_ClosedPositionsNetGain ==
  \A k \in Kids :
    PositionRows(stock_positions, k) = {}
      => LedgerSum(transactions, k, "stock")
           = - RealizedUpTo(transactions, k, Len(transactions))

\* a sale at another price than the purchase has just closed a kid's last
\* position, after an earlier partial sale or spend
C37_Witness ==
  /\ ret = "ok" /\ stock_positions = << >>
  /\ LedgerSum(transactions, "Aiden", "stock") # 0
  /\ Cardinality({i \in 1..Len(transactions) :
                    transactions[i].type = "sell"
                      /\ transactions[i].bucket = "stock"}) >= 2

RECURSIVE DeltasUpTo(_, _, _)
\* the points_delta of kid k's tagged rows among the first n rows of ledger
\* t, summed
DeltasUpTo(t, k, n) ==
  IF n = 0 THEN 0
  ELSE DeltasUpTo(t, k, n - 1)
         + (IF n \in TaggedRows(t, k) THEN t[n].metadata.points_delta ELSE 0)

\* C38: each reported point is converted to money at most once: for every
\* kid, the point deltas credited by the snapshot deposits sum to no more than
\* the largest points total recorded for the kid, also when two submissions
\* for the kid overlap.
C38_PointsCreditedOnce ==
  \A k \in Kids :
    \A i \in TaggedRows(transactions, k) :
      DeltasUpTo(transactions, k, i)
        <= transactions[CHOOSE m \in TaggedRows(transactions, k) :
             \A j \in TaggedRows(transactions, k) :
               transactions[j].metadata.points_total
                 <= transactions[m].metadata.points_total].metadata.points_total

RECURSIVE PositionsValueUpTo(_, _)
\* the value at the stored prices of kid k's positions among the first n rows
\* of stock_positions, each position's value rounded to the cent
PositionsValueUpTo(k, n) ==
  IF n = 0 THEN 0
  ELSE PositionsValueUpTo(k, n - 1)
         + (IF stock_positions[n].kid = k
            THEN SharesValue(stock_positions[n].shares,
                             stock_prices[stock_positions[n].ticker])
            ELSE 0)

\* what kid k owns in the current state: the cash and mmf entries summed, the
\* principal of the active lots and the value of the positions
KidTotal(k) ==
  LedgerSum(transactions, k, "cash") + LedgerSum(transactions, k, "mmf")
    + ActivePrincipalUpTo(k, Len(cd_lots))
    + PositionsValueUpTo(k, Len(stock_positions))

\* the portfolio query has all its reads back
Settled == portfolio.kid \in Kids /\ portfolio.pending = {}

\* nothing was committed and no price stored since the reads were sent
Quiet ==
  /\ portfolio.fired.rows = Len(transactions)
  /\ portfolio.fired.prices = stock_prices

\* C39 as stated: a portfolio summary reports a grand_total that is the kid's
\* total either when its reads were sent or when the last of them came back,
\* also when a bucket-to-bucket operation for the kid commits in between; it
\* never counts the moved amount twice or omits it.
C39_SummaryBeforeOrAfter ==
  [][(portfolio.pending # {} /\ portfolio'.pending = {})
       => getPortfolioSummary(portfolio').grand_total
            \in {portfolio.fired.total, KidTotal(portfolio.kid)}]_vars

\* C39, amended: a portfolio summary whose reads all came back with nothing
\* committed and no price stored since they were sent reports the kid's
\* balances: cash and mmf are the sums of the kid's entries of the bucket,
\* cd_total the principal of the active lots, stock_total the value of the
\* positions, and grand_total the kid's total.
C39_QuietSummaryIsTotal ==
  (Settled /\ Quiet)
    => LET s == getPortfolioSummary(portfolio)
           k == portfolio.kid
       IN /\ s.cash = LedgerSum(transactions, k, "cash")
          /\ s.mmf = LedgerSum(transactions, k, "mmf")
          /\ s.cd_total = ActivePrincipalUpTo(k, Len(cd_lots))
          /\ s.stock_total = PositionsValueUpTo(k, Len(stock_positions))
          /\ s.grand_total = KidTotal(k)

\* a summary read from a quiet ledger with money in all four buckets
C39_Witness ==
  /\ Settled /\ Quiet
  /\ portfolio.cash > 0 /\ portfolio.mmf > 0
  /\ portfolio.cdTotal > 0 /\ portfolio.stockTotal > 0

\* the rows among the first n of ledger t that left kid k's mmf bucket empty
EmptiedBy(t, k, n) ==
  {j \in 1..n : t[j].kid = k /\ t[j].bucket = "mmf" /\ SumUpTo(t, k, "mmf", j) = 0}

\* kid k's interest rows that follow a row which emptied the fund
InterestAfterRefund(t, k) ==
  {i \in 1..Len(t) : /\ t[i].kid = k /\ t[i].type = "interest" /\ t[i].bucket = "mmf"
                     /\ EmptiedBy(t, k, i - 1) # {}}

\* the date the fund was funded again before row i: that of the first mmf row
\* of the kid after the last row that emptied it
RefundDate(t, k, i) ==
  LET e == CHOOSE j \in EmptiedBy(t, k, i - 1) :
             \A m \in EmptiedBy(t, k, i - 1) : m <= j
      f == CHOOSE j \in (e + 1)..(i - 1) :
             /\ t[j].kid = k /\ t[j].bucket = "mmf"
             /\ \A m \in (e + 1)..(j - 1) : ~ (t[m].kid = k /\ t[m].bucket = "mmf")
  IN t[f].created_at

\* the date row i's accrual counted from: that of the kid's latest interest row
\* before it, else that of the kid's first invest into the fund
CountedFrom(t, k, i) ==
  LET interest == {j \in 1..(i - 1) : t[j].kid = k /\ t[j].type = "interest"
                                        /\ t[j].bucket = "mmf"}
      invest == {j \in 1..(i - 1) : t[j].kid = k /\ t[j].type = "invest"
                                      /\ t[j].bucket = "mmf"}
  IN IF interest # {}
     THEN t[CHOOSE j \in interest : \A m \in interest : m <= j].created_at
     ELSE t[CHOOSE j \in invest : \A m \in invest : j <= m].created_at

====
